---- MODULE Spec2Model ----
(***************************************************************************)
(* SCHOLARX matching-and-scheduling engine.                                *)
(*                                                                         *)
(* Numbers.  Times of day are minutes since midnight ("10:00" is 600,      *)
(* "00:00" is 0).  Ratios are records [num, den].  Percentages rounded to  *)
(* one decimal (round(x, 1)) are integers in tenths of a percent.  Skill   *)
(* scores are integers in ten-thousandths (Unit is 1.0).                        *)
(***************************************************************************)
EXTENDS Integers, Sequences, FiniteSets, TLC

VARIABLES
    \* ---- profile store: availability rows, and the pairwise matchers ----
    availability,    \* usn -> set of rows <<day_of_week, start, end>> flagged available
    preferred_days,  \* the preferred_days argument of the schedule.py calls
    overlap,         \* advanced_matching.get_user_availability_overlap results, by <<u1, u2>>
    util_overlap,    \* skill_utils.get_user_availability_overlap results, by <<u1, u2>>
    match,           \* schedule.py calculate_schedule_match_percentage results, by <<u1, u2>>
    team_result,     \* last result of _calculate_team_compatibility_score
    \* ---- one ranking request (get_advanced_matches) ----
    candidate_df,                    \* the candidate records, in query order
    matching_skills,       \* the target terms
    threshold,  \* in ten-thousandths
    rank_pc,               \* "start", "scored", "embedded", "ranked", "answered"
    scored,                \* what compute_skill_scores returned
    skill_embed_cache,     \* _SKILL_EMBED_CACHE: normalized skill -> vector
    skill_embeddings_dict, \* what get_skill_embeddings returned
    enhanced_df,           \* what enhance_scores_with_graph returned
    placeholder_used,      \* some encode_texts call of the request fell back to zeros
    matched_skills,        \* USN -> the matched_skills list of its result entry
    \* ---- one study-group matching request (study_group_matching.py) ----
    group_pc,              \* "start", "scored", "ranked"
    group_scored,          \* what skill_utils.compute_skill_scores returned
    group_enhanced,        \* what skill_utils.enhance_scores_with_graph returned
    \* ---- team formation and meeting slots (schedule.py, meeting_slots.py) ----
    all_users,             \* the USNs load_all_users returns, in order
    team_request,          \* the arguments of the find_optimal_teams call
    optimal_teams,         \* what find_optimal_teams returned
    meeting_slots,         \* what find_team_meeting_slots returned
    common_slots,          \* what find_common_slots returned, with its team
    \* ---- seeding of reference data (accounts/signals.py) ----
    department_rows,       \* the Department table: the names of its rows, in order of creation
    skill_rows,            \* the Skill table: the names of its rows, in order of creation
    seed_calls,            \* how many times a seeding function has been called
    \* ---- concurrent callers of get_skill_embeddings (advanced_matching.py) ----
    caller_pc,             \* caller -> "scan", "encode", "write", "done"
    caller_skills,         \* caller -> the skills argument, a list
    caller_pos,            \* caller -> how many items its current loop has gone through
    caller_pending,        \* caller -> its pending list
    caller_new_emb,        \* caller -> what its encode_texts call returned
    caller_embeddings,     \* caller -> its embeddings dict
    \* ---- the profile cache of one EnhancedScheduleMatcher (schedule.py) ----
    users_cache,           \* self.users_cache: usn -> profile
    cache_timestamp,       \* self.cache_timestamp in minutes, -1 for None
    clock,                 \* datetime.now() in minutes
    profiles,              \* the last load_user_profiles call: its arguments and result
    recommendations,       \* the last get_comprehensive_recommendations call
    \* ---- invitations of one project (projects/invite_views.py) ----
    invite_status,         \* invitee -> "none", "pending", "accepted", "declined"
    team_members,          \* the invitees with a TeamMember row of the project
    current_team_size,     \* the project's current_team_size column
    max_team_size,         \* the project's max_team_size column, 0 for NULL
    respond_pc,            \* invitee -> where its respond_to_invitation request is
    respond_action,        \* invitee -> the action of its request
    respond_project,       \* invitee -> the current_team_size its request loaded
    respond_response,      \* invitee -> the response of its last finished request
    respond_calls          \* invitee -> how many requests it has started

avail_vars == <<availability, preferred_days, overlap, util_overlap, match, team_result>>

rank_vars == <<candidate_df, matching_skills, threshold, rank_pc, scored,
               skill_embed_cache, skill_embeddings_dict, enhanced_df, placeholder_used,
               matched_skills>>

group_vars == <<group_pc, group_scored, group_enhanced>>

optimizer_vars == <<all_users, team_request, optimal_teams, meeting_slots, common_slots>>

seed_vars == <<department_rows, skill_rows, seed_calls>>

embed_vars == <<caller_pc, caller_skills, caller_pos, caller_pending, caller_new_emb,
                caller_embeddings>>

cache_vars == <<users_cache, cache_timestamp, clock, profiles, recommendations>>

invite_vars == <<invite_status, team_members, current_team_size, max_team_size,
                 respond_pc, respond_action, respond_project, respond_response,
                 respond_calls>>

service_vars == <<embed_vars, cache_vars, invite_vars>>

vars == <<avail_vars, rank_vars, group_vars, optimizer_vars, seed_vars, service_vars>>

(***************************************************************************)
(* Arithmetic helpers                                                      *)
(***************************************************************************)
Min2(a, b) == IF a <= b THEN a ELSE b
Max2(a, b) == IF a >= b THEN a ELSE b

SetMin(S) == CHOOSE x \in S : \A y \in S : x <= y
SetMax(S) == CHOOSE x \in S : \A y \in S : x >= y

RECURSIVE SeqSum(_)
SeqSum(s) == IF s = <<>> THEN 0 ELSE Head(s) + SeqSum(Tail(s))

SeqRange(s) == {s[i] : i \in DOMAIN s}

\* round(n / d) to the nearest integer, d > 0 (no tie occurs for the
\* denominators of the match percentage; ties go up)
RoundDiv(n, d) == (2 * n + d) \div (2 * d)

\* p = q for ratios, p <= q for ratios
FracEq(p, q) == p.num * q.den = q.num * p.den
FracLe(p, q) == p.num * q.den <= q.num * p.den

EmptyMap == [x \in {} |-> 0]

\* Body at val, with val computed once
Bind(val, Body(_)) == CHOOSE r \in {Body(x) : x \in {val}} : TRUE

\* the function f written out as a table, every value computed once
Table(f) == f @@ EmptyMap

(***************************************************************************)
(* Time slots and days (schedule.py __init__, advanced_matching.py)        *)
(***************************************************************************)
MinutesPerDay == 24 * 60

\* the 12 fixed 2-hour slots; the last one ends at "00:00"
time_slots ==
    << <<0, 120>>, <<120, 240>>, <<240, 360>>, <<360, 480>>,
       <<480, 600>>, <<600, 720>>, <<720, 840>>, <<840, 960>>,
       <<960, 1080>>, <<1080, 1200>>, <<1200, 1320>>, <<1320, 0>> >>

\* index of 'sunday' .. 'saturday'
days == <<0, 1, 2, 3, 4, 5, 6>>

DayIndexes == SeqRange(days)

\* build_schedule: rows -> day index -> set of (start, end); rows whose day
\* is not a known day are dropped
build_schedule(rows) ==
    [d \in DayIndexes |-> {<<r[2], r[3]>> : r \in {x \in rows : x[1] = d}}]

\* slots_overlap / get_overlapping_slots: an end <= its start crosses midnight
slots_overlap(slot1, slot2) ==
    LET end1_min == IF slot1[2] <= slot1[1] THEN slot1[2] + MinutesPerDay ELSE slot1[2]
        end2_min == IF slot2[2] <= slot2[1] THEN slot2[2] + MinutesPerDay ELSE slot2[2]
    IN  ~(end1_min <= slot2[1] \/ end2_min <= slot1[1])

\* the double loop without the test for equal slots
OverlappingSlots_EqualIncluded(user1_available, user2_available) ==
    {slot1 \in user1_available :
        \E slot2 \in user2_available : slots_overlap(slot1, slot2)}

\* the inner double loop: every slot of user 1 that overlaps some different
\* slot of user 2 adds 0.5 once (break after the first hit)
OverlappingSlots(user1_available, user2_available) ==
    {slot1 \in user1_available :
        \E slot2 \in user2_available : slot1 # slot2 /\ slots_overlap(slot1, slot2)}

\* day_common of one day, in half slots: len(exact_matches) + overlapping_matches
DayCommonHalves(user1_available, user2_available) ==
    2 * Cardinality(user1_available \cap user2_available)
    + Cardinality(OverlappingSlots(user1_available, user2_available))

RECURSIVE SumOverDays(_, _, _)
SumOverDays(ds, schedule1, schedule2) ==
    IF ds = <<>> THEN 0
    ELSE DayCommonHalves(schedule1[Head(ds)], schedule2[Head(ds)])
         + SumOverDays(Tail(ds), schedule1, schedule2)

Neutral == [num |-> 1, den |-> 2]

\* advanced_matching.get_user_availability_overlap
get_user_availability_overlap(store, user1_usn, user2_usn) ==
    IF user1_usn = "" \/ user2_usn = "" \/ user1_usn = user2_usn THEN Neutral
    ELSE
    LET schedule1 == build_schedule(store[user1_usn])
        schedule2 == build_schedule(store[user2_usn])
        user1_has_slots == \E d \in DayIndexes : schedule1[d] # {}
        user2_has_slots == \E d \in DayIndexes : schedule2[d] # {}
        total_possible_slots == Len(days) * Len(time_slots)
        common_halves == SumOverDays(days, schedule1, schedule2)
    IN  IF ~user1_has_slots \/ ~user2_has_slots THEN Neutral
        ELSE [num |-> Min2(common_halves, 2 * total_possible_slots),
              den |-> 2 * total_possible_slots]

\* skill_utils.get_user_availability_overlap
util_get_user_availability_overlap(store, user1_id, user2_id) ==
    LET user1_availability == store[user1_id]
        user2_availability == store[user2_id]
        max_possible == Min2(Cardinality(user1_availability), Cardinality(user2_availability))
    IN  IF user1_availability = {} \/ user2_availability = {} THEN Neutral
        ELSE [num |-> Cardinality(user1_availability \cap user2_availability),
              den |-> max_possible]

\* _load_from_*_enhanced: the schedule and total_available_slots of each user
load_user_profiles(store, user_ids) ==
    [u \in user_ids \cap DOMAIN store |->
        [schedule |-> build_schedule(store[u]),
         total_available_slots |->
            Cardinality({r \in store[u] : r[1] \in DayIndexes})]]

\* the stored identifiers that do not have the form of a USN: one with a
\* leading space and one of another institute code, both 10 characters long
\* as the registration form demands
SpacedUSN == " 1KG22AD03"

ForeignUSN == "2KG22AD002"

\* normalize_usn: str(raw_usn).strip().upper(); every other identifier of
\* the model is upper case without surrounding spaces
normalize_usn(raw_usn) == IF raw_usn = SpacedUSN THEN "1KG22AD03" ELSE raw_usn

\* is_valid_usn: ^1[A-Z]{2}[0-9]{2}[A-Z]{2}[0-9]{3}$ over the identifiers of
\* the model
is_valid_usn(usn) == usn \notin {"", SpacedUSN, "1KG22AD03", ForeignUSN}

\* schedule.py calculate_schedule_match_percentage; match_percentage is in
\* tenths of a percent, common_slots in half slots
calculate_schedule_match_percentage(store, user1_id, user2_id, pdays) ==
    LET user1_norm == normalize_usn(user1_id)
        user2_norm == normalize_usn(user2_id)
        users_data == load_user_profiles(store, {user1_norm, user2_norm})
    IN  IF ~is_valid_usn(user1_norm) \/ ~is_valid_usn(user2_norm)
        THEN [error |-> "Invalid USN format", match_percentage |-> 0,
              common_slots |-> 0, total_possible_slots |-> 0]
        ELSE IF user1_norm \notin DOMAIN users_data \/ user2_norm \notin DOMAIN users_data
        THEN [error |-> "One or both users not found", match_percentage |-> 0,
              common_slots |-> 0, total_possible_slots |-> 0]
        ELSE
        LET total_possible_slots == Len(pdays) * Len(time_slots)
            common_halves == SumOverDays(pdays, users_data[user1_norm].schedule,
                                         users_data[user2_norm].schedule)
        IN  [error |-> "",
             match_percentage |->
                IF total_possible_slots > 0
                THEN RoundDiv(common_halves * 1000, 2 * total_possible_slots)
                ELSE 0,
             common_slots |-> common_halves,
             total_possible_slots |-> total_possible_slots]

\* all (i, j), i < j, index pairs of a team, in the order of the nested loops
PairIndexes(n) == {ij \in (1..n) \X (1..n) : ij[1] < ij[2]}

\* the sum of the values of the function f
RECURSIVE TotalOf(_)
TotalOf(f) ==
    IF DOMAIN f = {} THEN 0
    ELSE Bind(CHOOSE x \in DOMAIN f : TRUE,
              LAMBDA x : f[x] + TotalOf([y \in DOMAIN f \ {x} |-> f[y]]))

\* _calculate_team_compatibility_score; every score is in tenths of a percent
calculate_team_compatibility_score(store, team_ids, users_data, pdays) ==
    Bind(Table([ij \in PairIndexes(Len(team_ids)) |->
                    calculate_schedule_match_percentage(
                        store, team_ids[ij[1]], team_ids[ij[2]], pdays)]),
         LAMBDA results :
    Bind({ij \in DOMAIN results : results[ij].error = ""}, LAMBDA scored_pairs :
        IF scored_pairs = {}
        THEN [overall_score |-> 0, pairs_scored |-> 0, availability_penalty |-> 0]
        ELSE
        Bind(Table([i \in DOMAIN team_ids |-> users_data[team_ids[i]].total_available_slots]),
             LAMBDA team_availability :
        LET n == Cardinality(scored_pairs)
            sum_pairwise == TotalOf([ij \in scored_pairs |-> results[ij].match_percentage])
            min_pairwise_score == SetMin({results[ij].match_percentage : ij \in scored_pairs})
            max_pairwise_score == SetMax({results[ij].match_percentage : ij \in scored_pairs})
            availability_variance == SetMax(SeqRange(team_availability))
                                     - SetMin(SeqRange(team_availability))
            zero_availability_penalty ==
                Cardinality({i \in DOMAIN team_ids : team_availability[i] = 0}) * 150
        IN  Bind(Min2(availability_variance, 100) + zero_availability_penalty,
                 LAMBDA availability_penalty :
                    [overall_score |->
                        RoundDiv(6 * sum_pairwise + 3 * n * min_pairwise_score
                                 + n * max_pairwise_score - 10 * n * availability_penalty,
                                 10 * n),
                     pairs_scored |-> n,
                     availability_penalty |-> availability_penalty]))))

(***************************************************************************)
(* MeetingSlotFinder (schedule.py find_team_meeting_slots,                 *)
(* meeting_slots.py find_common_slots)                                     *)
(***************************************************************************)
\* sorted(rows, key=..., reverse=True): the indexes of rows, descending by
\* key[i]; tied rows keep their order
RECURSIVE SortedIndexes(_, _)
SortedIndexes(key, keys) ==
    IF keys = {} THEN <<>>
    ELSE Bind(SetMax(keys), LAMBDA m :
            SelectSeq([i \in DOMAIN key |-> i], LAMBDA i : key[i] = m)
            \o SortedIndexes(key, keys \ {m}))

SortedDescending(rows, key) ==
    Bind(SortedIndexes(key, SeqRange(key)), LAMBDA order :
        Table([i \in DOMAIN order |-> rows[order[i]]]))

\* the first n entries of a list: lst[:n]
FirstN(lst, n) == SubSeq(lst, 1, Min2(n, Len(lst)))

\* is_available of one member for one standard slot of one day: the exact
\* slot or any overlapping slot of the member
is_available(member_schedule, time_slot) ==
    \/ time_slot \in member_schedule
    \/ \E member_slot \in member_schedule : slots_overlap(time_slot, member_slot)

\* slot_info of one (day, time slot) of a team; availability_percentage in
\* tenths of a percent
slot_info(users_data, valid_ids, day, time_slot) ==
    Bind(SelectSeq(valid_ids,
                   LAMBDA member_id :
                        is_available(users_data[member_id].schedule[day], time_slot)),
         LAMBDA available_members :
            [day |-> day,
             time_slot |-> time_slot,
             availability_percentage |->
                RoundDiv(1000 * Len(available_members), Len(valid_ids)),
             available_members |-> Len(available_members),
             total_members |-> Len(valid_ids),
             available_member_ids |-> available_members])

\* the bucket of a slot: availability_percentage == 100, >= 80, >= 50
bucket_of(info) ==
    IF info.available_members = info.total_members THEN "perfect"
    ELSE IF 100 * info.available_members >= 80 * info.total_members THEN "good"
    ELSE IF 100 * info.available_members >= 50 * info.total_members THEN "backup"
    ELSE "none"

NoSlot == [day |-> -1, time_slot |-> <<0, 0>>, availability_percentage |-> 0,
           available_members |-> 0, total_members |-> 0, available_member_ids |-> <<>>]

\* _generate_fallback_recommendations: the best available slots, the best
\* days, the member with limited availability and the adjustment tips
generate_fallback_recommendations(perfect_slots, good_slots, backup_slots, pdays, team_ids, users_data) ==
    Bind(perfect_slots \o good_slots \o backup_slots, LAMBDA all_available_slots :
    Bind(SortedDescending(all_available_slots,
                          Table([i \in DOMAIN all_available_slots |->
                                    all_available_slots[i].availability_percentage])),
         LAMBDA sorted_slots :
    Bind(Table([i \in DOMAIN team_ids |-> users_data[team_ids[i]].total_available_slots]),
         LAMBDA team_availability :
        [best_available_slots |-> FirstN(sorted_slots, 5),
         best_slot |-> IF sorted_slots = <<>> THEN NoSlot ELSE sorted_slots[1],
         best_days |->
            {d \in SeqRange(pdays) :
                \E i \in DOMAIN sorted_slots : sorted_slots[i].day = d},
         least_available_user |->
            IF SetMax(SeqRange(team_availability)) - SetMin(SeqRange(team_availability)) > 10
            THEN team_ids[CHOOSE i \in DOMAIN team_ids :
                    /\ team_availability[i] = SetMin(SeqRange(team_availability))
                    /\ \A j \in 1..(i - 1) : team_availability[j] # team_availability[i]]
            ELSE "",
         schedule_adjustment_tips |-> perfect_slots = <<>> /\ good_slots = <<>>])))

NoMeetingSlots ==
    [error |-> "", member_ids |-> <<>>, perfect_slots |-> <<>>, good_slots |-> <<>>,
     backup_slots |-> <<>>,
     fallback_recommendations |->
        [best_available_slots |-> <<>>, best_slot |-> NoSlot, best_days |-> {},
         least_available_user |-> "", schedule_adjustment_tips |-> FALSE],
     statistics |-> [total_perfect_slots |-> 0, total_good_slots |-> 0,
                     total_backup_slots |-> 0]]

\* the normalized identifiers of the team that have the form of a USN
valid_usns(team_member_ids) ==
    Bind(Table([i \in DOMAIN team_member_ids |-> normalize_usn(team_member_ids[i])]),
         LAMBDA normalized : SelectSeq(normalized, is_valid_usn))

\* find_team_meeting_slots: every standard slot of every preferred day is
\* put in a bucket; the lists returned are the first 20, 15 and 10 entries
find_team_meeting_slots(store, team_member_ids, pdays) ==
    IF Len(team_member_ids) < 2
    THEN [NoMeetingSlots EXCEPT !.error = "Need at least 2 team members"]
    ELSE
    Bind(valid_usns(team_member_ids), LAMBDA valid_ids :
    IF Len(valid_ids) < 2
    THEN [NoMeetingSlots EXCEPT !.error = "Need at least 2 valid team member IDs"]
    ELSE
    Bind(load_user_profiles(store, SeqRange(valid_ids)), LAMBDA users_data :
        IF \E i \in DOMAIN valid_ids : valid_ids[i] \notin DOMAIN users_data
        THEN [NoMeetingSlots EXCEPT !.error = "Users not found"]
        ELSE
        Bind(Table([k \in 1..(Len(pdays) * Len(time_slots)) |->
                slot_info(users_data, valid_ids,
                          pdays[((k - 1) \div Len(time_slots)) + 1],
                          time_slots[((k - 1) % Len(time_slots)) + 1])]),
             LAMBDA infos :
        Bind(SelectSeq(infos, LAMBDA i : bucket_of(i) = "perfect"), LAMBDA perfect_slots :
        Bind(SelectSeq(infos, LAMBDA i : bucket_of(i) = "good"), LAMBDA good_slots :
        Bind(SelectSeq(infos, LAMBDA i : bucket_of(i) = "backup"), LAMBDA backup_slots :
            [error |-> "",
             member_ids |-> valid_ids,
             perfect_slots |-> FirstN(perfect_slots, 20),
             good_slots |-> FirstN(good_slots, 15),
             backup_slots |-> FirstN(backup_slots, 10),
             fallback_recommendations |->
                generate_fallback_recommendations(perfect_slots, good_slots, backup_slots,
                                                  pdays, valid_ids, users_data),
             statistics |-> [total_perfect_slots |-> Len(perfect_slots),
                             total_good_slots |-> Len(good_slots),
                             total_backup_slots |-> Len(backup_slots)]]))))))

\* meeting_slots.py: the 2-hour blocks of find_common_slots; the last one
\* ends at 23:59
common_time_slots ==
    [h \in 1..12 |-> <<(h - 1) * 120, IF h = 12 THEN 23 * 60 + 59 ELSE h * 120>>]

\* the test of find_common_slots for one user slot and one block
covers_block(user_slot, block) == user_slot[1] <= block[2] /\ user_slot[2] >= block[1]

\* the bucket find_common_slots puts a block in, from the number of members
\* counted and min_good = max(1, int(total * 0.8)),
\* min_backup = max(1, int(total * 0.5))
common_bucket_of(available_count, total_members) ==
    IF available_count = 0 THEN "none"
    ELSE IF available_count = total_members THEN "perfect"
    ELSE IF available_count >= Max2(1, (8 * total_members) \div 10) THEN "good"
    ELSE IF available_count >= Max2(1, total_members \div 2) THEN "backup"
    ELSE "none"

\* find_common_slots over the availability rows of the team members
find_common_slots(store, team_member_ids) ==
    IF Len(team_member_ids) = 0
    THEN [perfect_slots |-> <<>>, good_slots |-> <<>>, backup_slots |-> <<>>]
    ELSE
    Bind(Table([k \in 1..(Len(days) * Len(common_time_slots)) |->
            Bind(days[((k - 1) \div Len(common_time_slots)) + 1], LAMBDA day :
            Bind(common_time_slots[((k - 1) % Len(common_time_slots)) + 1], LAMBDA block :
            Bind(SelectSeq(team_member_ids,
                    LAMBDA usn :
                        /\ usn \in DOMAIN store
                        /\ \E r \in store[usn] :
                                r[1] = day /\ covers_block(<<r[2], r[3]>>, block)),
                 LAMBDA available_members :
                    [day |-> day,
                     time_slot |-> block,
                     available_count |-> Len(available_members),
                     total_members |-> Len(team_member_ids),
                     availability_percentage |->
                        (Len(available_members) * 100) \div Len(team_member_ids),
                     bucket |-> common_bucket_of(Len(available_members),
                                                 Len(team_member_ids))])))]),
         LAMBDA infos :
            [perfect_slots |-> SelectSeq(infos, LAMBDA i : i.bucket = "perfect"),
             good_slots |-> SelectSeq(infos, LAMBDA i : i.bucket = "good"),
             backup_slots |-> SelectSeq(infos, LAMBDA i : i.bucket = "backup")])

(***************************************************************************)
(* TeamOptimizer (schedule.py find_optimal_teams)                          *)
(***************************************************************************)
\* the lists ss[lo], .., ss[hi] one after the other
RECURSIVE Concat(_, _, _)
Concat(ss, lo, hi) ==
    IF lo > hi THEN <<>>
    ELSE IF lo = hi THEN ss[lo]
    ELSE Concat(ss, lo, (lo + hi) \div 2) \o Concat(ss, (lo + hi) \div 2 + 1, hi)

\* list(itertools.combinations(pool, k)): the k-element subsequences of the
\* pool in lexicographic order of their positions
RECURSIVE combinations(_, _)
combinations(pool, k) ==
    IF k = 0 THEN << <<>> >>
    ELSE IF Len(pool) < k THEN <<>>
    ELSE Bind(Table([i \in 1..(Len(pool) - k + 1) |->
                Bind(combinations(SubSeq(pool, i + 1, Len(pool)), k - 1), LAMBDA rest :
                    Table([j \in DOMAIN rest |-> <<pool[i]>> \o rest[j]]))]),
              LAMBDA by_first : Concat(by_first, 1, Len(by_first)))

\* the limit on the combinations find_optimal_teams scores
max_combinations == 1000

NoOptimalTeams ==
    [error |-> "", success |-> FALSE, total_combinations_evaluated |-> 0,
     teams_found |-> 0, top_teams |-> <<>>, scored_combinations |-> <<>>]

\* every combination is kept
limit_combinations_KeepAll(team_combinations) == team_combinations

\* team_combinations[:1000] when there are more than 1000
limit_combinations(team_combinations) ==
    IF Len(team_combinations) > max_combinations
    THEN FirstN(team_combinations, max_combinations)
    ELSE team_combinations

\* the pool is never found too small
not_enough_users_Never(usns, team_size) == FALSE

\* len(all_users) < team_size, len(available_users) < team_size
not_enough_users(usns, team_size) == Len(usns) < team_size

\* find_optimal_teams; scored_combinations lists the combinations that went
\* through _calculate_team_compatibility_score, in order
find_optimal_teams(store, usns, team_size, pdays, min_team_score, max_teams) ==
    IF team_size < 2
    THEN [NoOptimalTeams EXCEPT !.error = "Team size must be at least 2"]
    ELSE IF not_enough_users(usns, team_size)
    THEN [NoOptimalTeams EXCEPT !.error = "Not enough users"]
    ELSE
    Bind(load_user_profiles(store, SeqRange(usns)), LAMBDA users_data :
    Bind(SelectSeq(usns, LAMBDA uid : uid \in DOMAIN users_data),
         LAMBDA available_users :
        IF not_enough_users(available_users, team_size)
        THEN [NoOptimalTeams EXCEPT !.error = "Not enough users"]
        ELSE
        Bind(limit_combinations(combinations(available_users, team_size)),
             LAMBDA team_combinations :
        Bind(SelectSeq(Table([i \in DOMAIN team_combinations |->
                            [team_ids |-> team_combinations[i],
                             score |-> calculate_team_compatibility_score(
                                            store, team_combinations[i], users_data, pdays)]]),
                       LAMBDA t : t.score.overall_score >= min_team_score),
             LAMBDA team_scores :
        Bind(FirstN(SortedDescending(team_scores,
                        Table([i \in DOMAIN team_scores |->
                                    team_scores[i].score.overall_score])),
                    max_teams),
             LAMBDA best :
        Bind(SelectSeq(Table([i \in DOMAIN best |->
                            [team_info |-> best[i],
                             meeting_slots |->
                                find_team_meeting_slots(store, best[i].team_ids, pdays)]]),
                       LAMBDA t : t.meeting_slots.error = ""),
             LAMBDA top_teams :
            [error |-> "",
             success |-> TRUE,
             total_combinations_evaluated |-> Len(team_combinations),
             teams_found |-> Len(top_teams),
             top_teams |-> top_teams,
             scored_combinations |-> team_combinations]))))))

(***************************************************************************)
(* Seeding of the reference tables (accounts/signals.py)                   *)
(***************************************************************************)
\* the departments add_test_departments adds
seed_departments ==
    <<"Artificial Intelligence and Data Science", "Civil Engineering",
      "Computer Science and Business Systems",
      "Computer Science and Engineering",
      "Electronics and Communication Engineering",
      "Mechanical Engineering">>

\* the skills add_test_skills adds
seed_skills ==
    <<"Python", "JavaScript", "Java", "C++", "C#", "Go", "Rust",
      "TypeScript", "Swift", "Kotlin", "Ruby", "PHP", "SQL", "R", "MATLAB",
      "Dart", "Scala", "HTML5", "CSS3", "React", "Angular", "Vue.js",
      "Node.js", "Express.js", "Django", "Flask", "Spring Boot", "ASP.NET",
      "Ruby on Rails", "Laravel", "Machine Learning", "Deep Learning",
      "Neural Networks", "Computer Vision", "Natural Language Processing",
      "Reinforcement Learning", "Data Mining", "Data Visualization",
      "Big Data", "Hadoop", "Spark", "TensorFlow", "PyTorch", "Keras",
      "scikit-learn", "OpenCV", "NLTK", "spaCy", "Transformers",
      "PostgreSQL", "MySQL", "MongoDB", "Redis", "SQLite", "Oracle",
      "Cassandra", "AWS", "Azure", "Google Cloud", "Docker", "Kubernetes",
      "Terraform", "CI/CD", "Jenkins", "GitHub Actions", "Ansible",
      "Linux", "Bash Scripting", "Embedded Systems", "Arduino",
      "Raspberry Pi", "VLSI", "FPGA", "Verilog", "VHDL", "PCB Design",
      "Circuit Design", "Signal Processing", "IoT", "CAD", "SolidWorks",
      "AutoCAD", "ANSYS", "Finite Element Analysis", "Thermodynamics",
      "Fluid Mechanics", "Mechatronics", "Robotics", "AutoCAD Civil 3D",
      "Revit", "STAAD.Pro", "ETABS", "Construction Management",
      "Structural Analysis", "Environmental Engineering",
      "Transportation Engineering", "Project Management", "Agile", "Scrum",
      "Leadership", "Communication", "Problem Solving",
      "Critical Thinking", "Teamwork", "Time Management">>

\* a row is created for every name, present or not
get_or_create_AlwaysCreate(rows, name) == Append(rows, name)

\* Model.objects.get_or_create(name=...): the row with that name is fetched
\* when there is one and created when there is none
get_or_create(rows, name) ==
    IF \E i \in DOMAIN rows : rows[i] = name THEN rows ELSE Append(rows, name)

\* for name in names[lo..hi]: get_or_create(name=name), one name after the
\* other
RECURSIVE get_or_create_each(_, _, _, _)
get_or_create_each(rows, names, lo, hi) ==
    IF lo > hi THEN rows
    ELSE IF lo = hi THEN Bind(rows, LAMBDA r : get_or_create(r, names[lo]))
    ELSE Bind(get_or_create_each(rows, names, lo, (lo + hi) \div 2),
              LAMBDA r : get_or_create_each(r, names, (lo + hi) \div 2 + 1, hi))

add_test_departments(rows) == get_or_create_each(rows, seed_departments, 1, Len(seed_departments))

add_test_skills(rows) == get_or_create_each(rows, seed_skills, 1, Len(seed_skills))

(***************************************************************************)
(* Embeddings (advanced_matching.py encode_texts, get_skill_embeddings)    *)
(***************************************************************************)
Unit == 100 * 100

\* the embedding provider: normalized vectors, here of length 10 in three
\* dimensions, so that np.inner(a, b) is Dot(a, b) / 100
Embed(text) ==
    CASE text = "python"  -> <<10, 0, 0>>
      [] text = "python3" -> <<8, 6, 0>>
      [] text = "py"      -> <<6, 8, 0>>
      [] text = "art"     -> <<-8, 6, 0>>
      [] text = "sql"     -> <<0, 0, 10>>
      [] OTHER            -> <<0, 10, 0>>

\* np.zeros(384): what encode_texts returns when the provider raises
ZeroVector == <<0, 0, 0>>

Dot(a, b) == a[1] * b[1] + a[2] * b[2] + a[3] * b[3]

VecAdd(a, b) == <<a[1] + b[1], a[2] + b[2], a[3] + b[3]>>

\* encode_texts: one provider call for the whole batch; provider_ok says
\* whether model.encode returned or raised
encode_texts(texts, provider_ok) ==
    [i \in DOMAIN texts |-> IF provider_ok THEN Embed(texts[i]) ELSE ZeroVector]

\* s.strip().lower() on the vocabulary of the model
StripLower(text) ==
    CASE text = "Python" -> "python"
      [] text = " "      -> ""
      [] OTHER           -> text

\* compute_similarity_matrix entry, in ten-thousandths
Similarity(a, b) == Dot(a, b) * 100

\* normalize_and_split_skills: drop blanks and duplicates, keep the order
RECURSIVE normalize_and_split_skills(_)
normalize_and_split_skills(skills) ==
    IF skills = <<>> THEN <<>>
    ELSE Bind(normalize_and_split_skills(SubSeq(skills, 1, Len(skills) - 1)),
              LAMBDA front :
                LET last == StripLower(skills[Len(skills)])
                IN  IF last = "" \/ last \in SeqRange(front) THEN front
                    ELSE Append(front, last))

\* get_skill_embeddings: cached vectors are reused, the pending texts are
\* encoded in one batch and written to the cache
PendingSkills(cache, skills) ==
    {StripLower(sk) : sk \in skills} \ ({""} \cup DOMAIN cache)

get_skill_embeddings_cache(cache, skills, provider_ok) ==
    LET pending == PendingSkills(cache, skills)
    IN  cache @@ [sk \in pending |-> IF provider_ok THEN Embed(sk) ELSE ZeroVector]

get_skill_embeddings(cache, skills, provider_ok) ==
    LET after == get_skill_embeddings_cache(cache, skills, provider_ok)
    IN  [sk \in {StripLower(x) : x \in skills} \ {""} |-> after[sk]]

(***************************************************************************)
(* SimilarityScorer (advanced_matching.py compute_skill_scores)            *)
(***************************************************************************)
\* stable sort of rows by field f, descending (pandas sort_values on the
\* small frames used here keeps tied rows in their order)
InsertDesc(sorted, r, f) ==
    LET k == Cardinality({i \in DOMAIN sorted : sorted[i][f] >= r[f]})
    IN  SubSeq(sorted, 1, k) \o <<r>> \o SubSeq(sorted, k + 1, Len(sorted))

RECURSIVE SortDesc(_, _)
SortDesc(rows, f) ==
    IF rows = <<>> THEN <<>>
    ELSE Bind(SortDesc(SubSeq(rows, 1, Len(rows) - 1), f),
              LAMBDA sorted : InsertDesc(sorted, rows[Len(rows)], f))

\* coverage ** 0.7 for coverage = m / n, in ten-thousandths
CoverageFactor(m, n) ==
    CASE m = n             -> Unit
      [] m = 0             -> 0
      [] 2 * m = n         -> 6156
      [] 3 * m = n         -> 4635
      [] 3 * m = 2 * n     -> 7529
      [] 4 * m = n         -> 3789
      [] 4 * m = 3 * n     -> 8176
      [] 5 * m = n         -> 3241
      [] 5 * m = 2 * n     -> 5266
      [] 5 * m = 3 * n     -> 6994
      [] 5 * m = 4 * n     -> 8554

RECURSIVE Pow(_, _)
Pow(b, e) == IF e = 0 THEN 1 ELSE b * Pow(b, e - 1)

\* the proficiency recorded for a matched skill, 3 when there is none
ProficiencyOf(skill_proficiencies, matched_skill) ==
    IF matched_skill \in DOMAIN skill_proficiencies
    THEN skill_proficiencies[matched_skill] ELSE 3

\* np.argmax over a row of similarities: the first index of the maximum
ArgMax(row_sim) ==
    CHOOSE i \in DOMAIN row_sim :
        /\ \A j \in DOMAIN row_sim : row_sim[j] <= row_sim[i]
        /\ \A j \in DOMAIN row_sim : j < i => row_sim[j] < row_sim[i]

\* max_per_input of one candidate: for each input skill the best similarity
\* and the skill that reaches it
MaxPerInput(input_emb, skill_emb, skills) ==
    [k \in DOMAIN input_emb |->
        Bind(Table([j \in DOMAIN skill_emb |-> Similarity(input_emb[k], skill_emb[j])]),
             LAMBDA row_sim :
                Bind(ArgMax(row_sim),
                     LAMBDA max_idx :
                        [sim |-> row_sim[max_idx], matched_skill |-> skills[max_idx]]))]

\* the step function of the average matched proficiency
\* (avg_proficiency = total_proficiency / matched_skills_count)
ProficiencyBonusBase(total_proficiency, matched_skills_count) ==
    IF 10 * total_proficiency < 2 * matched_skills_count THEN 200
    ELSE IF 10 * total_proficiency < 4 * matched_skills_count THEN 500
    ELSE IF 10 * total_proficiency < 6 * matched_skills_count THEN 1000
    ELSE IF 10 * total_proficiency < 8 * matched_skills_count THEN 1500
    ELSE 2000

\* matched_details of one candidate: the input skills whose best similarity
\* reaches the threshold, in the order of the input skills
MatchedDetailsOf(row, input_skills, max_per_input, similarity_threshold) ==
    SelectSeq([k \in DOMAIN max_per_input |->
                    [input_skill |-> input_skills[k],
                     matched_skill |-> max_per_input[k].matched_skill,
                     similarity |-> max_per_input[k].sim,
                     proficiency |-> ProficiencyOf(row.Skill_Proficiencies,
                                                   max_per_input[k].matched_skill)]],
              LAMBDA d : d.similarity >= similarity_threshold)

\* the score of one candidate from its valid matches (above the threshold
\* and not 'want to learn') and the number n of input skills
ScoreOfMatches(valid, n) ==
    LET matched_skills_count == Len(valid)
        total_proficiency == SeqSum([i \in DOMAIN valid |-> valid[i].proficiency])
        weighted_similarity_sum ==
            SeqSum([i \in DOMAIN valid |->
                (valid[i].similarity * (30 + 14 * valid[i].proficiency)) \div 100])
        avg_score == IF matched_skills_count > 0
                     THEN weighted_similarity_sum \div matched_skills_count ELSE 0
        coverage == (Unit * matched_skills_count) \div n
        proficiency_bonus ==
            IF matched_skills_count > 0
            THEN (ProficiencyBonusBase(total_proficiency, matched_skills_count)
                  * CoverageFactor(matched_skills_count, n)) \div Unit
            ELSE 0
        max_base_score == IF matched_skills_count < n
                          THEN 1000 + (7 * coverage) \div 10 ELSE 8000
        multi_skill_bonus ==
            500 - (500 * Pow(9, matched_skills_count - 1))
                        \div Pow(10, matched_skills_count - 1)
    IN  Bind(avg_score, LAMBDA avg :
        Bind(Min2(max_base_score, (6 * avg) \div 10 + (4 * coverage) \div 10),
             LAMBDA base_score :
        Bind(Min2(Unit, base_score + proficiency_bonus), LAMBDA with_bonus :
            [avg_score |-> avg,
             weighted_score |-> IF matched_skills_count > 1
                                THEN Min2(Unit, with_bonus + multi_skill_bonus)
                                ELSE with_bonus])))

\* the matches marked 'want to learn' are kept
valid_matches_KeepWantToLearn(matched_details) == matched_details

\* valid_matches: the matches above the threshold whose proficiency is not
\* 0 ('want to learn')
valid_matches(matched_details) == SelectSeq(matched_details, LAMBDA d : d.proficiency # 0)

\* (avg_score, weighted_score, matched_details) of one candidate row
ScoreCandidate(row, input_skills, input_emb, skill_emb, similarity_threshold) ==
    Bind(normalize_and_split_skills(row.Skill), LAMBDA skills :
        IF skills = <<>>
        THEN [avg_score |-> 0, weighted_score |-> 0, matched_details |-> <<>>]
        ELSE
        Bind(Table(MaxPerInput(input_emb, Table(skill_emb), skills)), LAMBDA max_per_input :
        Bind(MatchedDetailsOf(row, input_skills, max_per_input, similarity_threshold),
             LAMBDA matched_details :
        Bind(ScoreOfMatches(valid_matches(matched_details), Len(input_skills)),
             LAMBDA score :
                [avg_score |-> score.avg_score, weighted_score |-> score.weighted_score,
                 matched_details |-> matched_details]))))

\* the rescaling without the test of the largest score
NormalizeScores_AlwaysRescale(scores) ==
    IF Len(scores) > 1 /\ SetMax(SeqRange(scores)) > 0
    THEN [i \in DOMAIN scores |-> (scores[i] * 8000) \div SetMax(SeqRange(scores))]
    ELSE scores

\* the rescaling of the whole column after the per-row scores
NormalizeScores(scores) ==
    IF Len(scores) > 1 /\ SetMax(SeqRange(scores)) > 0
    THEN Bind(SetMax(SeqRange(scores)), LAMBDA max_score :
            IF max_score > 8000
            THEN [i \in DOMAIN scores |-> Min2(scores[i], Unit)]
            ELSE [i \in DOMAIN scores |-> (scores[i] * 8000) \div max_score])
    ELSE scores

\* the early return without the candidate rows
ZeroScored_DropRows(df) ==
    [df |-> <<>>, matched_details |-> EmptyMap]

\* the early return: a copy of the frame with both score columns 0.0 and no
\* match details
ZeroScored(df) ==
    [df |-> [i \in DOMAIN df |->
                [USN |-> df[i].USN, Average_Similarity |-> 0, Weighted_Score |-> 0]],
     matched_details |-> EmptyMap]

\* compute_skill_scores; input_ok and student_ok are the outcomes of its two
\* encode_texts calls
compute_skill_scores(df, raw_input_skills, similarity_threshold, input_ok, student_ok) ==
    Bind(SelectSeq([i \in DOMAIN raw_input_skills |-> StripLower(raw_input_skills[i])],
                   LAMBDA t : t # ""),
         LAMBDA input_skills :
        IF df = <<>> \/ input_skills = <<>> THEN ZeroScored(df)
        ELSE
        Bind(Table(encode_texts(input_skills, input_ok)), LAMBDA input_emb :
        Bind(Table([i \in DOMAIN df |->
                ScoreCandidate(df[i], input_skills, input_emb,
                               encode_texts(normalize_and_split_skills(df[i].Skill), student_ok),
                               similarity_threshold)]),
             LAMBDA per_row :
        Bind(Table(NormalizeScores(Table([i \in DOMAIN df |-> per_row[i].weighted_score]))),
             LAMBDA normalized :
            [df |-> SortDesc(Table([i \in DOMAIN df |->
                                [USN |-> df[i].USN,
                                 Average_Similarity |-> per_row[i].avg_score,
                                 Weighted_Score |-> normalized[i]]]),
                             "Weighted_Score"),
             matched_details |-> [u \in {df[i].USN : i \in DOMAIN df} |->
                                    per_row[CHOOSE i \in DOMAIN df : df[i].USN = u]
                                        .matched_details]]))))

(***************************************************************************)
(* NetworkEnhancer (advanced_matching.py enhance_scores_with_graph)        *)
(***************************************************************************)
RECURSIVE VecSum(_)
VecSum(vs) == IF vs = <<>> THEN ZeroVector ELSE VecAdd(Head(vs), VecSum(Tail(vs)))

\* the embedding of a student: the mean of the skill vectors (a skill
\* without an embedding counts as zeros); the sum has the same direction
StudentEmbedding(row, skill_embeddings) ==
    Bind(normalize_and_split_skills(row.Skill), LAMBDA skills :
        VecSum(Table([i \in DOMAIN skills |->
                    IF skills[i] \in DOMAIN skill_embeddings
                    THEN skill_embeddings[skills[i]] ELSE ZeroVector])))

\* cosine_similarity(a, b) >= 0.3; a zero vector has similarity 0
CosineAtLeastThreshold(a, b) ==
    /\ Dot(a, a) > 0
    /\ Dot(b, b) > 0
    /\ Dot(a, b) >= 0
    /\ 100 * Dot(a, b) * Dot(a, b) >= 9 * Dot(a, a) * Dot(b, b)

\* the adjacency with every row as a key, also the rows without an edge
build_student_skill_graph_AllRowsKeyed(df, skill_embeddings) ==
    [i \in DOMAIN df |->
        {j \in DOMAIN df : j # i /\ CosineAtLeastThreshold(
                                        StudentEmbedding(df[i], skill_embeddings),
                                        StudentEmbedding(df[j], skill_embeddings))}]

\* build_student_skill_graph: adjacency over row indexes; only rows with an
\* edge are keys
build_student_skill_graph(df, skill_embeddings) ==
    IF Len(df) < 2 THEN EmptyMap
    ELSE Bind(Table([i \in DOMAIN df |-> StudentEmbedding(df[i], skill_embeddings)]),
              LAMBDA emb :
                Bind(Table([i \in DOMAIN df |->
                        {j \in DOMAIN df : j # i /\ CosineAtLeastThreshold(emb[i], emb[j])}]),
                     LAMBDA neighbors :
                        [i \in {x \in DOMAIN df : neighbors[x] # {}} |-> neighbors[i]]))

\* compute_network_centrality: degree over the largest degree, by row index,
\* in ten-thousandths
compute_network_centrality(adjacency) ==
    IF DOMAIN adjacency = {} THEN EmptyMap
    ELSE Bind(SetMax({Cardinality(adjacency[n]) : n \in DOMAIN adjacency}),
              LAMBDA max_cent :
                [n \in DOMAIN adjacency |->
                    IF max_cent > 0 THEN (Cardinality(adjacency[n]) * Unit) \div max_cent
                    ELSE Cardinality(adjacency[n]) * Unit])

min_samples == 2

\* the nodes a cluster grows to from frontier: core nodes pull in their
\* neighbours
RECURSIVE Reachable(_, _, _)
Reachable(adjacency, core, frontier) ==
    Bind(frontier \cup UNION {adjacency[n] \cap DOMAIN adjacency : n \in frontier \cap core},
         LAMBDA next :
            IF next = frontier THEN frontier ELSE Reachable(adjacency, core, next))

\* detect_communities_graph: DBSCAN over distance 1 - adjacency with
\* eps = 0.5: the eps-neighbourhood of a node is itself and its neighbours;
\* clusters are numbered in the order of their first core node, noise is -1
detect_communities_graph(adjacency) ==
    Bind(DOMAIN adjacency, LAMBDA nodes :
    Bind({n \in nodes : Cardinality(adjacency[n] \cap nodes) + 1 >= min_samples},
         LAMBDA core :
    Bind(Table([c \in core |-> Reachable(adjacency, core, {c})]), LAMBDA ClusterOf :
    Bind({c \in core : \A d \in core : d < c => c \notin ClusterOf[d]}, LAMBDA Seeds :
        [n \in nodes |->
            IF \E c \in Seeds : n \in ClusterOf[c]
            THEN Cardinality({x \in Seeds : x < SetMin({y \in Seeds : n \in ClusterOf[y]})})
            ELSE -1]))))

network_weight == 1000

community_bonus == 200

\* the sum without the cap
EnhancedScore_Uncapped(base_score, cent_bonus, comm_bonus) ==
    base_score + cent_bonus + comm_bonus

\* enhanced_score = min(1.0, base_score + cent_bonus + comm_bonus)
EnhancedScore(base_score, cent_bonus, comm_bonus) ==
    Min2(Unit, base_score + cent_bonus + comm_bonus)

\* enhance_scores_with_graph
enhance_scores_with_graph(pool, ranked_df, embeddings_dict) ==
    IF pool = <<>> \/ ranked_df = <<>> THEN <<>>
    ELSE
    Bind(Table(build_student_skill_graph(pool, embeddings_dict)), LAMBDA adjacency :
    Bind(Table(compute_network_centrality(adjacency)), LAMBDA by_node :
    Bind(Table(detect_communities_graph(adjacency)), LAMBDA communities :
        LET NodeOf(usn) == CHOOSE i \in DOMAIN pool : pool[i].USN = usn
            Centrality(usn) ==
                IF NodeOf(usn) \in DOMAIN by_node THEN by_node[NodeOf(usn)] ELSE 0
        IN  SortDesc(Table([i \in DOMAIN ranked_df |->
                LET usn == ranked_df[i].USN
                    base_score == ranked_df[i].Weighted_Score
                    cent_bonus == (Centrality(usn) * network_weight) \div Unit
                    comm_bonus == IF NodeOf(usn) \in DOMAIN communities
                                  THEN community_bonus ELSE 0
                IN  [USN |-> usn,
                     Weighted_Score |-> base_score,
                     Network_Enhanced_Score |->
                        EnhancedScore(base_score, cent_bonus, comm_bonus),
                     Network_Centrality |-> Centrality(usn)]]),
            "Network_Enhanced_Score"))))

\* the number of matched skills a result entry lists
max_matched_skills == 5

\* the matched_skills of one result entry of get_advanced_matches: name,
\* proficiency (3 when the skill is not found) and similarity rounded to
\* three places of every matched item, in the order of the items, cut at 5
matched_skills_of(matched_items, skill_proficiencies) ==
    FirstN(Table([i \in DOMAIN matched_items |->
                    [name |-> matched_items[i].matched_skill,
                     proficiency |-> ProficiencyOf(skill_proficiencies,
                                                   matched_items[i].matched_skill),
                     similarity |-> RoundDiv(matched_items[i].similarity, 10) * 10]]),
           max_matched_skills)

(***************************************************************************)
(* Study-group matching (skill_utils.py compute_skill_scores and           *)
(* enhance_scores_with_graph)                                              *)
(***************************************************************************)
\* text.lower() on the vocabulary of the model
Lower(text) == IF text = "Python" THEN "python" ELSE text

\* a in b, for Python strings
IsSubstring(a, b) ==
    \/ a = ""
    \/ a = b
    \/ a = "py" /\ b \in {"python", "python3"}
    \/ a = "python" /\ b = "python3"

\* row['Skill'].lower().split('; '): an empty Skill string gives ['']
UserSkills(row) == IF row.Skill = <<>> THEN <<"">> ELSE row.Skill

\* the similarity of one required skill and one user skill: 0.9 for a
\* substring either way, else the TF-IDF cosine of two different one-token
\* documents, which is 0
UtilSimilarity(req_skill_lower, user_skill) ==
    IF IsSubstring(req_skill_lower, user_skill) \/ IsSubstring(user_skill, req_skill_lower)
    THEN 9000 ELSE 0

\* skill_utils.compute_skill_scores: Skill_Score per row, in frame order
util_compute_skill_scores(df, required_skills, similarity_threshold) ==
    IF df = <<>> \/ required_skills = <<>> THEN <<>>
    ELSE Table([i \in DOMAIN df |->
            LET user_skills == UserSkills(df[i])
                Best(req) ==
                    Bind({x \in {UtilSimilarity(Lower(req), user_skills[j]) :
                                    j \in DOMAIN user_skills} :
                            x > 0 /\ x >= similarity_threshold},
                         LAMBDA ok : IF ok = {} THEN 0 ELSE SetMax(ok))
            IN  [USN |-> df[i].USN,
                 Skill_Score |->
                    SeqSum(Table([k \in DOMAIN required_skills |-> Best(required_skills[k])]))
                        \div Len(required_skills)]])

PageRankScale == 1000 * 1000

PageRankIterations == 100

\* the sum of f over the nodes of S
RECURSIVE SumOver(_, _)
SumOver(f, S) == IF S = {} THEN 0
                 ELSE LET m == CHOOSE y \in S : TRUE
                      IN  f[m] + SumOver(f, S \ {m})

\* one power-iteration step of nx.pagerank (alpha 0.85, uniform
\* personalization, dangling nodes spread uniformly); nbrs maps a node to
\* its neighbours
PageRankStep(nbrs, x) ==
    Bind(x, LAMBDA cur :
    Bind(DOMAIN nbrs, LAMBDA nodes :
    Bind(SumOver(cur, {m \in nodes : nbrs[m] = {}}), LAMBDA dangling :
    Bind(Table([m \in nodes |->
                    IF nbrs[m] = {} THEN 0 ELSE cur[m] \div Cardinality(nbrs[m])]),
         LAMBDA share :
            Table([v \in nodes |->
                (85 * (SumOver(share, nbrs[v]) + dangling \div Cardinality(nodes))) \div 100
                + (15 * PageRankScale) \div (100 * Cardinality(nodes))])))))

\* the power iteration, four steps at a time: it stops when the steps change
\* nothing any more (the convergence test of nx.pagerank) or after
\* PageRankIterations steps
RECURSIVE PageRankIterate(_, _, _)
PageRankIterate(nbrs, x, k) ==
    Bind(PageRankStep(nbrs, PageRankStep(nbrs, PageRankStep(nbrs, PageRankStep(nbrs, x)))),
         LAMBDA xlast :
            IF k <= 4 \/ xlast = x THEN xlast
            ELSE PageRankIterate(nbrs, xlast, k - 4))

\* nx.pagerank of the user/skill graph: users are row indexes, skill nodes
\* are the required skills; a user is linked to each required skill that is
\* literally among the user's skills
UserPageRank(df, required_skills) ==
    LET users == DOMAIN df
        skills == SeqRange(required_skills)
        nodes == {<<"user", i>> : i \in users} \cup {<<"skill", sk>> : sk \in skills}
        Linked(i, sk) == sk \in SeqRange(UserSkills(df[i]))
    IN  Bind(Table([v \in nodes |->
                    IF v[1] = "user"
                    THEN {<<"skill", sk>> : sk \in {y \in skills : Linked(v[2], y)}}
                    ELSE {<<"user", i>> : i \in {y \in users : Linked(y, v[2])}}]),
             LAMBDA nbrs :
        Bind(PageRankIterate(nbrs,
                             Table([v \in nodes |-> PageRankScale \div Cardinality(nodes)]),
                             PageRankIterations),
             LAMBDA rank : Table([i \in users |-> rank[<<"user", i>>]])))

util_network_weight == 1000

\* skill_utils.enhance_scores_with_graph: a blend of Skill_Score and the
\* PageRank of the user over the largest PageRank of a user
util_enhance_scores_with_graph(df, scored_df, required_skills) ==
    IF df = <<>> \/ scored_df = <<>> THEN <<>>
    ELSE
    Bind(UserPageRank(df, required_skills), LAMBDA pagerank :
    Bind(SetMax({pagerank[i] : i \in DOMAIN df}), LAMBDA max_network :
        Table([i \in DOMAIN scored_df |->
            Bind(Min2(Unit, (pagerank[i] * 100) \div (max_network \div 100)),
                 LAMBDA network_score :
                    [USN |-> scored_df[i].USN,
                     Skill_Score |-> scored_df[i].Skill_Score,
                     Network_Score |-> network_score,
                     Network_Enhanced_Score |->
                        ((Unit - util_network_weight) * scored_df[i].Skill_Score
                         + util_network_weight * network_score) \div Unit])])))

(***************************************************************************)
(* The availability inputs of the model                                    *)
(***************************************************************************)
Users == {"1KG22AD001", "1KG22AD002"}

StandardSlots == SeqRange(time_slots)

\* what one day of a user's week looks like: one standard slot, two
\* adjacent standard slots, a custom interval covering both, and the whole
\* day plus a custom interval
DayPatterns ==
    { {<<600, 720>>},
      {<<600, 720>>, <<720, 840>>},
      {<<600, 840>>},
      StandardSlots \cup {<<540, 660>>} }

DaySets == { {1}, {1, 3}, DayIndexes }

Rows(pattern, dayset) == {<<d, s[1], s[2]>> : d \in dayset, s \in pattern}

AvailabilitySets == {{}} \cup {Rows(p, ds) : p \in DayPatterns, ds \in DaySets}

PreferredDays == {days, <<1>>}

NoTeamResult == [team_ids |-> <<>>, score |-> [overall_score |-> 0, pairs_scored |-> 0,
                                                availability_penalty |-> 0]]

OrderedPairs == {p \in Users \X Users : p[1] # p[2]}

NoScored == [df |-> <<>>, matched_details |-> EmptyMap]

NoTeamRequest == [team_size |-> 0, min_team_score |-> 0, max_teams |-> 0]

NoCommonSlots == [team_member_ids |-> <<>>, perfect_slots |-> <<>>, good_slots |-> <<>>,
                  backup_slots |-> <<>>]

\* no team formation or meeting slot request has run
OptimizerIdle ==
    /\ all_users = <<>>
    /\ team_request = NoTeamRequest
    /\ optimal_teams = NoOptimalTeams
    /\ meeting_slots = NoMeetingSlots
    /\ common_slots = NoCommonSlots

\* no caller of get_skill_embeddings, an unused profile cache and no
\* invitation outside the specifications about them
NoProfiles == [called |-> FALSE, user_ids |-> <<>>, use_cache |-> FALSE,
               force_reload |-> FALSE, result |-> EmptyMap]

NoRecommendations == [called |-> FALSE, user_id |-> "", success |-> FALSE,
                      candidate_ids |-> {}]

EmbedIdle ==
    /\ caller_pc = EmptyMap
    /\ caller_skills = EmptyMap
    /\ caller_pos = EmptyMap
    /\ caller_pending = EmptyMap
    /\ caller_new_emb = EmptyMap
    /\ caller_embeddings = EmptyMap

CacheIdle ==
    /\ users_cache = EmptyMap
    /\ cache_timestamp = -1
    /\ clock = 0
    /\ profiles = NoProfiles
    /\ recommendations = NoRecommendations

InviteIdle ==
    /\ invite_status = EmptyMap
    /\ team_members = {}
    /\ current_team_size = 1
    /\ max_team_size = 0
    /\ respond_pc = EmptyMap
    /\ respond_action = EmptyMap
    /\ respond_project = EmptyMap
    /\ respond_response = EmptyMap
    /\ respond_calls = EmptyMap

ServiceIdle == EmbedIdle /\ CacheIdle /\ InviteIdle

\* no seeding function has been called on an empty database
SeedIdle ==
    /\ department_rows = <<>>
    /\ skill_rows = <<>>
    /\ seed_calls = 0

\* no ranking request runs in the availability specifications
RankIdle ==
    /\ candidate_df = <<>>
    /\ matching_skills = <<>>
    /\ threshold = 0
    /\ rank_pc = "idle"
    /\ scored = NoScored
    /\ skill_embed_cache = EmptyMap
    /\ skill_embeddings_dict = EmptyMap
    /\ enhanced_df = <<>>
    /\ placeholder_used = FALSE
    /\ matched_skills = EmptyMap
    /\ group_pc = "idle"
    /\ group_scored = <<>>
    /\ group_enhanced = <<>>
    /\ OptimizerIdle

InitAvail ==
    /\ ServiceIdle
    /\ RankIdle
    /\ SeedIdle
    /\ availability \in [Users -> AvailabilitySets]
    /\ preferred_days \in PreferredDays
    /\ overlap = EmptyMap
    /\ util_overlap = EmptyMap
    /\ match = EmptyMap
    /\ team_result = NoTeamResult

\* one call of advanced_matching.get_user_availability_overlap
GetUserAvailabilityOverlap(u1, u2) ==
    /\ <<u1, u2>> \notin DOMAIN overlap
    /\ overlap' = overlap @@ (<<u1, u2>> :> get_user_availability_overlap(availability, u1, u2))
    /\ UNCHANGED <<availability, preferred_days, util_overlap, match, team_result, rank_vars, group_vars, optimizer_vars, seed_vars,
                   service_vars>>

\* one call of skill_utils.get_user_availability_overlap
UtilGetUserAvailabilityOverlap(u1, u2) ==
    /\ <<u1, u2>> \notin DOMAIN util_overlap
    /\ util_overlap' = util_overlap @@
            (<<u1, u2>> :> util_get_user_availability_overlap(availability, u1, u2))
    /\ UNCHANGED <<availability, preferred_days, overlap, match, team_result, rank_vars, group_vars, optimizer_vars, seed_vars,
                   service_vars>>

\* one call of calculate_schedule_match_percentage
CalculateScheduleMatchPercentage(u1, u2) ==
    /\ <<u1, u2>> \notin DOMAIN match
    /\ match' = match @@
            (<<u1, u2>> :> calculate_schedule_match_percentage(availability, u1, u2, preferred_days))
    /\ UNCHANGED <<availability, preferred_days, overlap, util_overlap, team_result, rank_vars, group_vars, optimizer_vars, seed_vars,
                   service_vars>>

NextAvail ==
    \E p \in OrderedPairs :
        \/ GetUserAvailabilityOverlap(p[1], p[2])
        \/ UtilGetUserAvailabilityOverlap(p[1], p[2])
        \/ CalculateScheduleMatchPercentage(p[1], p[2])

SpecAvail == InitAvail /\ [][NextAvail]_vars

(***************************************************************************)
(* Team scoring over a pool of three users                                 *)
(***************************************************************************)
TeamUsers == {"1KG22AD001", "1KG22AD002", "1KG22AD003"}

\* the pool in the order the profile store returns it
TeamPool == <<"1KG22AD001", "1KG22AD002", "1KG22AD003">>

\* itertools.combinations(pool, k): index-increasing subsequences
Combinations(pool, k) ==
    {t \in [1..k -> SeqRange(pool)] :
        \E idx \in [1..k -> DOMAIN pool] :
            /\ \A i \in 1..k : t[i] = pool[idx[i]]
            /\ \A i \in 1..(k - 1) : idx[i] < idx[i + 1]}

TeamAvailabilitySets ==
    {{}} \cup {Rows(p, ds) : p \in DayPatterns, ds \in {{1}, DayIndexes}}

InitTeam ==
    /\ ServiceIdle
    /\ RankIdle
    /\ SeedIdle
    /\ availability \in [TeamUsers -> TeamAvailabilitySets]
    /\ preferred_days \in PreferredDays
    /\ overlap = EmptyMap
    /\ util_overlap = EmptyMap
    /\ match = EmptyMap
    /\ team_result = NoTeamResult

\* one call of _calculate_team_compatibility_score, as find_optimal_teams
\* makes it for a combination of the pool
CalculateTeamCompatibilityScore(team_ids) ==
    /\ team_result = NoTeamResult
    /\ team_result' =
          [team_ids |-> team_ids,
           score |-> calculate_team_compatibility_score(
                        availability, team_ids,
                        load_user_profiles(availability, SeqRange(TeamPool)),
                        preferred_days)]
    /\ UNCHANGED <<availability, preferred_days, overlap, util_overlap, match, rank_vars, group_vars, optimizer_vars, seed_vars,
                   service_vars>>

NextTeam ==
    \E k \in 2..3 : \E team_ids \in Combinations(TeamPool, k) :
        CalculateTeamCompatibilityScore(team_ids)

SpecTeam == InitTeam /\ [][NextTeam]_vars

(***************************************************************************)
(* One ranking request: compute_skill_scores, get_skill_embeddings,        *)
(* enhance_scores_with_graph, as get_advanced_matches calls them           *)
(***************************************************************************)
MaxPool == 2

USNs == <<"1KG22AD001", "1KG22AD002", "1KG22AD003">>

SkillLists == { <<>>, <<"python">>, <<"py", "sql">> }

\* 0 is 'want to learn'
ProficiencyLevels == {0, 1, 5}

\* the records of one candidate: a skill list and a proficiency per skill
CandidateRecords(usn) ==
    UNION {{[USN |-> usn, Skill |-> sl, Skill_Proficiencies |-> pf] :
                pf \in [SeqRange(sl) -> ProficiencyLevels]} : sl \in SkillLists}

\* the candidate frames of n rows, one row per USN
RECURSIVE PoolsOfSize(_)
PoolsOfSize(n) ==
    IF n = 0 THEN {<<>>}
    ELSE {Append(p, r) : p \in PoolsOfSize(n - 1), r \in CandidateRecords(USNs[n])}

Pools == UNION {PoolsOfSize(n) : n \in 0..MaxPool}

TargetLists ==
    { <<>>, <<" ">>, <<"python">>, <<"python3">>, <<"Python", "sql">>,
      <<"python", "sql", "art">> }

default_similarity_threshold == 5000

Thresholds == {default_similarity_threshold}

AvailIdle ==
    /\ availability = EmptyMap
    /\ preferred_days = days
    /\ overlap = EmptyMap
    /\ util_overlap = EmptyMap
    /\ match = EmptyMap
    /\ team_result = NoTeamResult

Init ==
    /\ ServiceIdle
    /\ AvailIdle
    /\ candidate_df \in Pools
    /\ matching_skills \in TargetLists
    /\ threshold \in Thresholds
    /\ rank_pc = "start"
    /\ scored = NoScored
    /\ skill_embed_cache = EmptyMap
    /\ skill_embeddings_dict = EmptyMap
    /\ enhanced_df = <<>>
    /\ placeholder_used = FALSE
    /\ matched_skills = EmptyMap
    /\ group_pc = "idle"
    /\ group_scored = <<>>
    /\ group_enhanced = <<>>
    /\ SeedIdle
    /\ OptimizerIdle

\* does compute_skill_scores reach its encode_texts calls
Encodes(pool, terms) ==
    pool # <<>> /\ \E i \in DOMAIN terms : StripLower(terms[i]) # ""

\* compute_skill_scores(candidate_df, matching_skills, threshold); each of
\* its two encode_texts calls succeeds or falls back to zeros
ComputeSkillScores(input_ok, student_ok) ==
    /\ rank_pc = "start"
    /\ Encodes(candidate_df, matching_skills) \/ (input_ok /\ student_ok)
    /\ scored' = compute_skill_scores(candidate_df, matching_skills, threshold,
                                      input_ok, student_ok)
    /\ placeholder_used' = (placeholder_used \/ ~(input_ok /\ student_ok))
    /\ rank_pc' = "scored"
    /\ UNCHANGED <<candidate_df, matching_skills, threshold, skill_embed_cache,
                   skill_embeddings_dict, enhanced_df, matched_skills,
                   avail_vars, group_vars, optimizer_vars, seed_vars,
                   service_vars>>

\* the texts get_advanced_matches asks embeddings for
RequestedSkills ==
    UNION {SeqRange(candidate_df[i].Skill) : i \in DOMAIN candidate_df}
    \cup {StripLower(matching_skills[i]) : i \in DOMAIN matching_skills}

\* get_skill_embeddings(candidate skills | matching skills)
GetSkillEmbeddings(provider_ok) ==
    /\ rank_pc = "scored"
    /\ PendingSkills(skill_embed_cache, RequestedSkills) # {} \/ provider_ok
    /\ skill_embed_cache' =
            get_skill_embeddings_cache(skill_embed_cache, RequestedSkills, provider_ok)
    /\ skill_embeddings_dict' =
            get_skill_embeddings(skill_embed_cache, RequestedSkills, provider_ok)
    /\ placeholder_used' = (placeholder_used \/ ~provider_ok)
    /\ rank_pc' = "embedded"
    /\ UNCHANGED <<candidate_df, matching_skills, threshold, scored, enhanced_df,
                   matched_skills, avail_vars, group_vars, optimizer_vars, seed_vars,
                   service_vars>>

\* enhance_scores_with_graph(candidate_df, scored_df, matching_skills, skill_embeddings_dict)
EnhanceScoresWithGraph ==
    /\ rank_pc = "embedded"
    /\ enhanced_df' = enhance_scores_with_graph(candidate_df, scored.df, skill_embeddings_dict)
    /\ rank_pc' = "ranked"
    /\ UNCHANGED <<candidate_df, matching_skills, threshold, scored, skill_embed_cache,
                   skill_embeddings_dict, placeholder_used, matched_skills,
                   avail_vars, group_vars, optimizer_vars, seed_vars,
                   service_vars>>

\* the loop of get_advanced_matches over the ranked rows: the matched_skills
\* list of each result entry
CollectMatchedSkills ==
    /\ rank_pc = "ranked"
    /\ matched_skills' =
            [usn \in {enhanced_df[i].USN : i \in DOMAIN enhanced_df} |->
                matched_skills_of(
                    IF usn \in DOMAIN scored.matched_details
                    THEN scored.matched_details[usn] ELSE <<>>,
                    (CHOOSE r \in SeqRange(candidate_df) : r.USN = usn).Skill_Proficiencies)]
    /\ rank_pc' = "answered"
    /\ UNCHANGED <<candidate_df, matching_skills, threshold, scored, skill_embed_cache,
                   skill_embeddings_dict, enhanced_df, placeholder_used,
                   avail_vars, group_vars, optimizer_vars, seed_vars,
                   service_vars>>

Next ==
    \/ \E input_ok, student_ok \in BOOLEAN : ComputeSkillScores(input_ok, student_ok)
    \/ \E provider_ok \in BOOLEAN : GetSkillEmbeddings(provider_ok)
    \/ EnhanceScoresWithGraph
    \/ CollectMatchedSkills

Spec == Init /\ [][Next]_vars

(***************************************************************************)
(* One study-group matching request: skill_utils.compute_skill_scores and  *)
(* skill_utils.enhance_scores_with_graph, as study_group_matching calls    *)
(* them                                                                    *)
(***************************************************************************)
InitGroup ==
    /\ ServiceIdle
    /\ AvailIdle
    /\ candidate_df \in Pools
    /\ matching_skills \in TargetLists
    /\ threshold \in Thresholds
    /\ rank_pc = "idle"
    /\ scored = NoScored
    /\ skill_embed_cache = EmptyMap
    /\ skill_embeddings_dict = EmptyMap
    /\ enhanced_df = <<>>
    /\ placeholder_used = FALSE
    /\ matched_skills = EmptyMap
    /\ group_pc = "start"
    /\ group_scored = <<>>
    /\ group_enhanced = <<>>
    /\ SeedIdle
    /\ OptimizerIdle

UtilComputeSkillScores ==
    /\ group_pc = "start"
    /\ group_scored' = util_compute_skill_scores(candidate_df, matching_skills, threshold)
    /\ group_pc' = "scored"
    /\ UNCHANGED <<group_enhanced, rank_vars, avail_vars, optimizer_vars, seed_vars,
                   service_vars>>

UtilEnhanceScoresWithGraph ==
    /\ group_pc = "scored"
    /\ group_enhanced' =
            util_enhance_scores_with_graph(candidate_df, group_scored, matching_skills)
    /\ group_pc' = "ranked"
    /\ UNCHANGED <<group_scored, rank_vars, avail_vars, optimizer_vars, seed_vars,
                   service_vars>>

NextGroup == UtilComputeSkillScores \/ UtilEnhanceScoresWithGraph

SpecGroup == InitGroup /\ [][NextGroup]_vars

(***************************************************************************)
(* Team formation and meeting slots over the stored availability           *)
(***************************************************************************)
\* the sample_users table of a large deployment, in the order the queries
\* return it: more pairs than find_optimal_teams scores
LargePool ==
    <<"1KG22CS001", "1KG22CS002", "1KG22CS003", "1KG22CS004",
      "1KG22CS005", "1KG22CS006", "1KG22CS007", "1KG22CS008",
      "1KG22CS009", "1KG22CS010", "1KG22CS011", "1KG22CS012",
      "1KG22CS013", "1KG22CS014", "1KG22CS015", "1KG22CS016",
      "1KG22CS017", "1KG22CS018", "1KG22CS019", "1KG22CS020",
      "1KG22CS021", "1KG22CS022", "1KG22CS023", "1KG22CS024",
      "1KG22CS025", "1KG22CS026", "1KG22CS027", "1KG22CS028",
      "1KG22CS029", "1KG22CS030", "1KG22CS031", "1KG22CS032",
      "1KG22CS033", "1KG22CS034", "1KG22CS035", "1KG22CS036",
      "1KG22CS037", "1KG22CS038", "1KG22CS039", "1KG22CS040",
      "1KG22CS041", "1KG22CS042", "1KG22CS043", "1KG22CS044",
      "1KG22CS045", "1KG22CS046">>

\* what load_all_users can return: no user, two or three users, the large
\* table, or three users of whom two registered an identifier that is not
\* a USN
OptimizerPools ==
    {SubSeq(TeamPool, 1, n) : n \in {0, 2, 3}}
        \cup {LargePool, <<TeamPool[1], ForeignUSN, SpacedUSN>>}

\* a week of one user: nothing, one slot on Monday, two slots on Monday and
\* Wednesday, every slot of Monday, every slot of every day
OptimizerAvailabilitySets ==
    { {},
      Rows({<<600, 720>>}, {1}),
      Rows({<<600, 720>>, <<720, 840>>}, {1, 3}),
      Rows(StandardSlots \cup {<<540, 660>>}, {1}),
      Rows(StandardSlots, DayIndexes) }

\* in the large table only the first two and the last two users have
\* availability rows: every slot of Monday
LargeAvailability ==
    [u \in SeqRange(LargePool) |->
        IF u \in {LargePool[1], LargePool[2],
                  LargePool[Len(LargePool) - 1], LargePool[Len(LargePool)]}
        THEN Rows(StandardSlots, {1})
        ELSE {}]

\* the team sizes, score thresholds (tenths of a point) and result limits a
\* caller asks for
TeamSizes(pool) == {0, 1, 2, 3, Len(pool) + 1}

MinTeamScores == {0, 200, 500}

MaxTeams == {1, 2, 10}

InitOptimize ==
    /\ ServiceIdle
    /\ overlap = EmptyMap
    /\ util_overlap = EmptyMap
    /\ match = EmptyMap
    /\ team_result = NoTeamResult
    /\ candidate_df = <<>>
    /\ matching_skills = <<>>
    /\ threshold = 0
    /\ rank_pc = "idle"
    /\ scored = NoScored
    /\ skill_embed_cache = EmptyMap
    /\ skill_embeddings_dict = EmptyMap
    /\ enhanced_df = <<>>
    /\ placeholder_used = FALSE
    /\ matched_skills = EmptyMap
    /\ group_pc = "idle"
    /\ group_scored = <<>>
    /\ group_enhanced = <<>>
    /\ SeedIdle
    /\ all_users \in OptimizerPools
    /\ availability \in (IF all_users = LargePool THEN {LargeAvailability}
                         ELSE [SeqRange(all_users) -> OptimizerAvailabilitySets])
    /\ preferred_days \in (IF all_users = LargePool THEN {<<1>>} ELSE PreferredDays)
    /\ team_request = NoTeamRequest
    /\ optimal_teams = NoOptimalTeams
    /\ meeting_slots = NoMeetingSlots
    /\ common_slots = NoCommonSlots

\* no request of the team formation service has been answered yet
NoAnswerYet ==
    /\ team_request = NoTeamRequest
    /\ meeting_slots = NoMeetingSlots
    /\ common_slots = NoCommonSlots

\* one call of find_optimal_teams
FindOptimalTeams(team_size, min_team_score, max_teams) ==
    /\ NoAnswerYet
    /\ team_request' = [team_size |-> team_size, min_team_score |-> min_team_score,
                        max_teams |-> max_teams]
    /\ optimal_teams' = find_optimal_teams(availability, all_users, team_size,
                                           preferred_days, min_team_score, max_teams)
    /\ UNCHANGED <<avail_vars, rank_vars, group_vars, seed_vars, all_users, meeting_slots, common_slots,
                   service_vars>>

\* the teams a caller asks meeting slots for: one to three stored users
MeetingTeams ==
    IF Len(all_users) > Len(TeamPool) THEN {<<all_users[1], all_users[2]>>}
    ELSE UNION {Combinations(all_users, k) : k \in 1..Len(all_users)}

\* one call of find_team_meeting_slots
FindTeamMeetingSlots(team_member_ids) ==
    /\ NoAnswerYet
    /\ optimal_teams = NoOptimalTeams
    /\ meeting_slots' = find_team_meeting_slots(availability, team_member_ids,
                                                preferred_days)
    /\ UNCHANGED <<avail_vars, rank_vars, group_vars, seed_vars, all_users, team_request,
                   optimal_teams, common_slots,
                   service_vars>>

\* one call of meeting_slots.find_common_slots for a project team
FindCommonSlots(team_member_ids) ==
    /\ NoAnswerYet
    /\ optimal_teams = NoOptimalTeams
    /\ common_slots' = find_common_slots(availability, team_member_ids)
                            @@ [team_member_ids |-> team_member_ids]
    /\ UNCHANGED <<avail_vars, rank_vars, group_vars, seed_vars, all_users, team_request,
                   optimal_teams, meeting_slots,
                   service_vars>>

NextOptimize ==
    \/ \E team_size \in TeamSizes(all_users) :
       \E min_team_score \in MinTeamScores : \E max_teams \in MaxTeams :
            FindOptimalTeams(team_size, min_team_score, max_teams)
    \/ \E team_member_ids \in MeetingTeams : FindTeamMeetingSlots(team_member_ids)
    \/ \E team_member_ids \in MeetingTeams : FindCommonSlots(team_member_ids)

SpecOptimize == InitOptimize /\ [][NextOptimize]_vars

(***************************************************************************)
(* Seeding: the tables before the first call, and the calls                *)
(***************************************************************************)
\* the number of seeding calls followed
MaxSeedCalls == 3

\* the indexes of the seed names a table holds before the first call, and a
\* row that does not come from the seed lists
SeedPrefixes(names) == {0, 1, Len(names) - 1, Len(names)}

OtherRows == {<<>>, <<"Architecture">>}

InitSeed ==
    /\ ServiceIdle
    /\ AvailIdle
    /\ RankIdle
    /\ \E n \in SeedPrefixes(seed_departments) : \E other \in OtherRows :
            department_rows = other \o SubSeq(seed_departments, 1, n)
    /\ \E n \in SeedPrefixes(seed_skills) : \E other \in OtherRows :
            skill_rows = other \o SubSeq(seed_skills, 1, n)
    /\ seed_calls = 0

\* one call of add_test_departments
AddTestDepartments ==
    /\ seed_calls < MaxSeedCalls
    /\ department_rows' = add_test_departments(department_rows)
    /\ seed_calls' = seed_calls + 1
    /\ UNCHANGED <<skill_rows, avail_vars, rank_vars, group_vars, optimizer_vars,
                   service_vars>>

\* one call of add_test_skills
AddTestSkills ==
    /\ seed_calls < MaxSeedCalls
    /\ skill_rows' = add_test_skills(skill_rows)
    /\ seed_calls' = seed_calls + 1
    /\ UNCHANGED <<department_rows, avail_vars, rank_vars, group_vars, optimizer_vars,
                   service_vars>>

\* on_post_migrate: both functions when the sender is the accounts app,
\* nothing for another app
OnPostMigrate(sender_name) ==
    /\ seed_calls < MaxSeedCalls
    /\ IF sender_name = "accounts"
       THEN /\ department_rows' = add_test_departments(department_rows)
            /\ skill_rows' = add_test_skills(skill_rows)
       ELSE UNCHANGED <<department_rows, skill_rows>>
    /\ seed_calls' = seed_calls + 1
    /\ UNCHANGED <<avail_vars, rank_vars, group_vars, optimizer_vars,
                   service_vars>>

NextSeed ==
    \/ AddTestDepartments
    \/ AddTestSkills
    \/ \E sender_name \in {"accounts", "projects"} : OnPostMigrate(sender_name)

SpecSeed == InitSeed /\ [][NextSeed]_vars

(***************************************************************************)
(* Concurrent callers of get_skill_embeddings: request threads of one      *)
(* process share _SKILL_EMBED_CACHE, and get_skill_embeddings takes no     *)
(* lock.  Each look-up and each store of the dict is one step.             *)
(***************************************************************************)
Callers == {1, 2}

\* the skills arguments of the callers
SkillRequests == {<<"python">>, <<"sql", "Python">>, <<" ", "python", "sql">>}

\* the first loop of get_skill_embeddings, one skill: a blank is skipped, a
\* cached skill is copied to embeddings, any other goes to pending (which
\* holds skill.strip(), lower-cased when it is stored)
ScanSkill(c) ==
    /\ caller_pc[c] = "scan"
    /\ LET k == caller_pos[c] + 1
           normalized == StripLower(caller_skills[c][k])
           pending == IF normalized # "" /\ normalized \notin DOMAIN skill_embed_cache
                      THEN Append(caller_pending[c], normalized)
                      ELSE caller_pending[c]
       IN  /\ caller_pending' = [caller_pending EXCEPT ![c] = pending]
           /\ caller_embeddings' =
                [caller_embeddings EXCEPT ![c] =
                    IF normalized \in DOMAIN skill_embed_cache
                    THEN (normalized :> skill_embed_cache[normalized]) @@ @
                    ELSE @]
           /\ caller_pos' = [caller_pos EXCEPT ![c] = IF k = Len(caller_skills[c]) THEN 0 ELSE k]
           /\ caller_pc' = [caller_pc EXCEPT ![c] =
                                IF k < Len(caller_skills[c]) THEN "scan"
                                ELSE IF pending = <<>> THEN "done" ELSE "encode"]
    /\ UNCHANGED <<caller_skills, caller_new_emb, skill_embed_cache, candidate_df, matching_skills,
                   threshold, rank_pc, scored, skill_embeddings_dict, enhanced_df,
                   placeholder_used, matched_skills, avail_vars, group_vars,
                   optimizer_vars, seed_vars, cache_vars, invite_vars>>

\* new_emb = encode_texts(pending)
EncodePending(c, provider_ok) ==
    /\ caller_pc[c] = "encode"
    /\ caller_new_emb' = [caller_new_emb EXCEPT ![c] =
                                encode_texts(caller_pending[c], provider_ok)]
    /\ caller_pc' = [caller_pc EXCEPT ![c] = "write"]
    /\ UNCHANGED <<caller_skills, caller_pos, caller_pending, caller_embeddings,
                   skill_embed_cache, candidate_df, matching_skills,
                   threshold, rank_pc, scored, skill_embeddings_dict, enhanced_df,
                   placeholder_used, matched_skills, avail_vars, group_vars,
                   optimizer_vars, seed_vars, cache_vars, invite_vars>>

\* the second loop, one item: _SKILL_EMBED_CACHE[normalized] = vector and
\* embeddings[normalized] = vector
StoreEmbedding(c) ==
    /\ caller_pc[c] = "write"
    /\ LET k == caller_pos[c] + 1
           normalized == caller_pending[c][k]
           vector == caller_new_emb[c][k]
       IN  /\ skill_embed_cache' = (normalized :> vector) @@ skill_embed_cache
           /\ caller_embeddings' =
                [caller_embeddings EXCEPT ![c] = (normalized :> vector) @@ @]
           /\ caller_pos' = [caller_pos EXCEPT ![c] = k]
           /\ caller_pc' = [caller_pc EXCEPT ![c] =
                                IF k < Len(caller_pending[c]) THEN "write" ELSE "done"]
    /\ UNCHANGED <<caller_skills, caller_pending, caller_new_emb, candidate_df, matching_skills,
                   threshold, rank_pc, scored, skill_embeddings_dict, enhanced_df,
                   placeholder_used, matched_skills, avail_vars, group_vars,
                   optimizer_vars, seed_vars, cache_vars, invite_vars>>

\* the process has served requests before (sql is cached) or not
InitEmbed ==
    /\ AvailIdle
    /\ SeedIdle
    /\ OptimizerIdle
    /\ CacheIdle
    /\ InviteIdle
    /\ candidate_df = <<>>
    /\ matching_skills = <<>>
    /\ threshold = 0
    /\ rank_pc = "idle"
    /\ scored = NoScored
    /\ skill_embeddings_dict = EmptyMap
    /\ enhanced_df = <<>>
    /\ placeholder_used = FALSE
    /\ matched_skills = EmptyMap
    /\ group_pc = "idle"
    /\ group_scored = <<>>
    /\ group_enhanced = <<>>
    /\ skill_embed_cache \in {EmptyMap, ("sql" :> Embed("sql"))}
    /\ caller_skills \in [Callers -> SkillRequests]
    /\ caller_pc = [c \in Callers |-> "scan"]
    /\ caller_pos = [c \in Callers |-> 0]
    /\ caller_pending = [c \in Callers |-> <<>>]
    /\ caller_new_emb = [c \in Callers |-> <<>>]
    /\ caller_embeddings = [c \in Callers |-> EmptyMap]

NextEmbed ==
    \E c \in Callers :
        \/ ScanSkill(c)
        \/ \E provider_ok \in BOOLEAN : EncodePending(c, provider_ok)
        \/ StoreEmbedding(c)

SpecEmbed == InitEmbed /\ [][NextEmbed]_vars

(***************************************************************************)
(* The profile cache of one matcher (schedule.py load_user_profiles)       *)
(***************************************************************************)
\* self.cache_duration = timedelta(minutes=15)
cache_duration == 15

\* _is_cache_valid
is_cache_valid(cache, timestamp, now) ==
    /\ timestamp # -1
    /\ DOMAIN cache # {}
    /\ now - timestamp < cache_duration

\* load_user_profiles(user_ids, use_cache, force_reload): the result and the
\* cache fields after the call; user_ids None and [] are the same to every
\* test of the method ("if user_ids"), both are <<>> here
load_user_profiles_through_cache(cache, timestamp, now, store, user_ids, use_cache, force_reload) ==
    IF use_cache /\ ~force_reload /\ is_cache_valid(cache, timestamp, now)
    THEN [result |-> IF user_ids # <<>>
                     THEN [uid \in SeqRange(user_ids) \cap DOMAIN cache |-> cache[uid]]
                     ELSE cache,
          users_cache |-> cache,
          cache_timestamp |-> timestamp]
    ELSE Bind(load_user_profiles(store, IF user_ids # <<>> THEN SeqRange(user_ids)
                                        ELSE DOMAIN store),
              LAMBDA users_data :
                [result |-> users_data,
                 users_cache |-> IF ~use_cache THEN cache
                                 ELSE IF user_ids # <<>> THEN users_data @@ cache
                                 ELSE users_data,
                 cache_timestamp |-> IF use_cache THEN now ELSE timestamp])

\* get_comprehensive_recommendations without filters, up to its candidate
\* list: get_user_profile(user_id), then load_user_profiles()
get_comprehensive_recommendations(cache, timestamp, now, store, user_id) ==
    Bind(load_user_profiles_through_cache(cache, timestamp, now, store, <<user_id>>,
                                          TRUE, FALSE),
         LAMBDA first :
            IF user_id \notin DOMAIN first.result
            THEN [success |-> FALSE, candidate_ids |-> {}, last |-> first,
                  last_user_ids |-> <<user_id>>]
            ELSE Bind(load_user_profiles_through_cache(
                            first.users_cache, first.cache_timestamp, now, store, <<>>,
                            TRUE, FALSE),
                      LAMBDA second :
                        [success |-> TRUE,
                         candidate_ids |-> DOMAIN second.result \ {user_id},
                         last |-> second,
                         last_user_ids |-> <<>>]))

\* the user_ids arguments, <<>> for None
UserIdLists ==
    {<<>>, <<"1KG22AD001", "1KG22AD002">>} \cup {<<u>> : u \in TeamUsers}

\* how long the matcher is watched, and the minutes between two looks at
\* the clock
MaxClock == 20

ClockStep == 5

\* one call of load_user_profiles
LoadUserProfiles(user_ids, use_cache, force_reload) ==
    /\ LET out == load_user_profiles_through_cache(users_cache, cache_timestamp, clock,
                        availability, user_ids, use_cache, force_reload)
       IN  /\ users_cache' = out.users_cache
           /\ cache_timestamp' = out.cache_timestamp
           /\ profiles' = [called |-> TRUE, user_ids |-> user_ids, use_cache |-> use_cache,
                           force_reload |-> force_reload, result |-> out.result]
    /\ UNCHANGED <<clock, recommendations, avail_vars, rank_vars, group_vars,
                   optimizer_vars, seed_vars, embed_vars, invite_vars>>

\* one call of get_comprehensive_recommendations
GetComprehensiveRecommendations(user_id) ==
    /\ LET out == get_comprehensive_recommendations(users_cache, cache_timestamp, clock,
                        availability, user_id)
       IN  /\ users_cache' = out.last.users_cache
           /\ cache_timestamp' = out.last.cache_timestamp
           /\ profiles' = [called |-> TRUE, user_ids |-> out.last_user_ids,
                           use_cache |-> TRUE, force_reload |-> FALSE,
                           result |-> out.last.result]
           /\ recommendations' = [called |-> TRUE, user_id |-> user_id,
                                  success |-> out.success,
                                  candidate_ids |-> out.candidate_ids]
    /\ UNCHANGED <<clock, avail_vars, rank_vars, group_vars,
                   optimizer_vars, seed_vars, embed_vars, invite_vars>>

\* time passes between two calls
ClockAdvances ==
    /\ clock < MaxClock
    /\ clock' = clock + ClockStep
    /\ UNCHANGED <<users_cache, cache_timestamp, profiles, recommendations, avail_vars,
                   rank_vars, group_vars, optimizer_vars, seed_vars, embed_vars,
                   invite_vars>>

\* the stores: three users, none with availability rows or the third with one
CacheStores ==
    {[u \in TeamUsers |-> {}],
     [u \in TeamUsers |-> IF u = "1KG22AD003" THEN {<<1, 600, 720>>} ELSE {}]}

\* a new matcher (empty cache, no timestamp) over a store of three users
InitCache ==
    /\ RankIdle
    /\ SeedIdle
    /\ EmbedIdle
    /\ InviteIdle
    /\ availability \in CacheStores
    /\ preferred_days = days
    /\ overlap = EmptyMap
    /\ util_overlap = EmptyMap
    /\ match = EmptyMap
    /\ team_result = NoTeamResult
    /\ CacheIdle

NextCache ==
    \/ \E user_ids \in UserIdLists : \E use_cache, force_reload \in BOOLEAN :
            LoadUserProfiles(user_ids, use_cache, force_reload)
    \/ \E user_id \in TeamUsers \cup {"1KG22AD009"} : GetComprehensiveRecommendations(user_id)
    \/ ClockAdvances

SpecCache == InitCache /\ [][NextCache]_vars

(***************************************************************************)
(* Invitations of one project (projects/invite_views.py).  The views run   *)
(* without a transaction and without row locks, so every query of          *)
(* respond_to_invitation is a step of its own; an invitee has one request  *)
(* in flight at a time.  The inviter is the project's owner, who has no    *)
(* TeamMember row.                                                         *)
(***************************************************************************)
Invitees == TeamUsers

\* how many respond_to_invitation requests an invitee sends
MaxResponds == 2

\* the max_team_size of the project, 0 for NULL
TeamSizeLimits == {0, 2}

\* "project.max_team_size and project.current_team_size >= project.max_team_size"
project_is_full(limit, size) == limit # 0 /\ size >= limit

\* InviteRequest.clean for a project invitation sent by the owner: raises
\* ValidationError when the invitee already has a TeamMember row
clean_raises(invitee, members) == invitee \in members

\* invite_to_project by the owner: the invitee's invitation after the call.
\* At most one row exists per (inviter, invitee, project): a second create
\* fails on unique_project_invitation and answers 500.
invite_to_project(status, invitee, members, limit, size) ==
    IF invitee \in members THEN status
    ELSE IF project_is_full(limit, size) THEN status
    ELSE IF status = "pending" THEN status
    ELSE IF status = "none" /\ ~clean_raises(invitee, members) THEN "pending"
    ELSE status

InviteToProject(u) ==
    /\ invite_status' = [invite_status EXCEPT ![u] =
            invite_to_project(invite_status[u], u, team_members, max_team_size,
                              current_team_size)]
    /\ UNCHANGED <<team_members, current_team_size, max_team_size, respond_pc,
                   respond_action, respond_project, respond_response, respond_calls,
                   avail_vars, rank_vars, group_vars, optimizer_vars, seed_vars,
                   embed_vars, cache_vars>>

\* respond_to_invitation, first query: the invitee's pending invitation, then
\* the test of the action
RespondLookup(u, action) ==
    /\ respond_pc[u] = "idle"
    /\ respond_calls[u] < MaxResponds
    /\ respond_calls' = [respond_calls EXCEPT ![u] = @ + 1]
    /\ respond_action' = [respond_action EXCEPT ![u] = action]
    /\ IF invite_status[u] # "pending"
       THEN /\ respond_response' = [respond_response EXCEPT ![u] = "not_found"]
            /\ respond_pc' = respond_pc
       ELSE IF action \notin {"accept", "decline"}
       THEN /\ respond_response' = [respond_response EXCEPT ![u] = "bad_action"]
            /\ respond_pc' = respond_pc
       ELSE /\ respond_response' = [respond_response EXCEPT ![u] = ""]
            /\ respond_pc' = [respond_pc EXCEPT ![u] = "found"]
    /\ UNCHANGED <<invite_status, team_members, current_team_size, max_team_size,
                   respond_project, avail_vars, rank_vars, group_vars, optimizer_vars,
                   seed_vars, embed_vars, cache_vars>>

\* the decline branch: invite.status = 'declined'; invite.save()
RespondDecline(u) ==
    /\ respond_pc[u] = "found"
    /\ respond_action[u] = "decline"
    /\ IF clean_raises(u, team_members)
       THEN /\ respond_response' = [respond_response EXCEPT ![u] = "error"]
            /\ UNCHANGED invite_status
       ELSE /\ respond_response' = [respond_response EXCEPT ![u] = "declined"]
            /\ invite_status' = [invite_status EXCEPT ![u] = "declined"]
    /\ respond_pc' = [respond_pc EXCEPT ![u] = "idle"]
    /\ UNCHANGED <<team_members, current_team_size, max_team_size, respond_action,
                   respond_project, respond_calls, avail_vars, rank_vars, group_vars,
                   optimizer_vars, seed_vars, embed_vars, cache_vars>>

\* the accept branch loads invite.project and tests whether it has space
CheckSpace(u) ==
    /\ respond_pc[u] = "found"
    /\ respond_action[u] = "accept"
    /\ respond_project' = [respond_project EXCEPT ![u] = current_team_size]
    /\ IF project_is_full(max_team_size, current_team_size)
       THEN /\ respond_response' = [respond_response EXCEPT ![u] = "full"]
            /\ respond_pc' = [respond_pc EXCEPT ![u] = "idle"]
       ELSE /\ respond_response' = respond_response
            /\ respond_pc' = [respond_pc EXCEPT ![u] = "checked"]
    /\ UNCHANGED <<invite_status, team_members, current_team_size, max_team_size,
                   respond_action, respond_calls, avail_vars, rank_vars, group_vars,
                   optimizer_vars, seed_vars, embed_vars, cache_vars>>

\* TeamMember.objects.create unless the invitee has a row already
AddTeamMember(u) ==
    /\ respond_pc[u] = "checked"
    /\ team_members' = team_members \cup {u}
    /\ respond_pc' = [respond_pc EXCEPT ![u] =
                            IF u \in team_members THEN "accepting" ELSE "created"]
    /\ UNCHANGED <<invite_status, current_team_size, max_team_size, respond_action,
                   respond_project, respond_response, respond_calls, avail_vars,
                   rank_vars, group_vars, optimizer_vars, seed_vars, embed_vars,
                   cache_vars>>

\* invite.project.current_team_size = TeamMember.objects.filter(...).count()
CountTeamMembers(u) ==
    /\ respond_pc[u] = "created"
    /\ respond_project' = [respond_project EXCEPT ![u] = Cardinality(team_members)]
    /\ respond_pc' = [respond_pc EXCEPT ![u] = "counted"]
    /\ UNCHANGED <<invite_status, team_members, current_team_size, max_team_size,
                   respond_action, respond_response, respond_calls, avail_vars,
                   rank_vars, group_vars, optimizer_vars, seed_vars, embed_vars,
                   cache_vars>>

\* invite.project.save(update_fields=['current_team_size'])
SaveTeamSize(u) ==
    /\ respond_pc[u] = "counted"
    /\ current_team_size' = respond_project[u]
    /\ respond_pc' = [respond_pc EXCEPT ![u] = "accepting"]
    /\ UNCHANGED <<invite_status, team_members, max_team_size, respond_action,
                   respond_project, respond_response, respond_calls, avail_vars,
                   rank_vars, group_vars, optimizer_vars, seed_vars, embed_vars,
                   cache_vars>>

\* invite.status = 'accepted'; invite.save(), which runs clean() first
SaveAccepted(u) ==
    /\ respond_pc[u] = "accepting"
    /\ IF clean_raises(u, team_members)
       THEN /\ respond_response' = [respond_response EXCEPT ![u] = "error"]
            /\ UNCHANGED invite_status
       ELSE /\ respond_response' = [respond_response EXCEPT ![u] = "joined"]
            /\ invite_status' = [invite_status EXCEPT ![u] = "accepted"]
    /\ respond_pc' = [respond_pc EXCEPT ![u] = "idle"]
    /\ UNCHANGED <<team_members, current_team_size, max_team_size, respond_action,
                   respond_project, respond_calls, avail_vars, rank_vars, group_vars,
                   optimizer_vars, seed_vars, embed_vars, cache_vars>>

\* a new project: no invitation, no member row, current_team_size 1
InitInvite ==
    /\ AvailIdle
    /\ RankIdle
    /\ SeedIdle
    /\ EmbedIdle
    /\ CacheIdle
    /\ invite_status = [u \in Invitees |-> "none"]
    /\ team_members = {}
    /\ current_team_size = 1
    /\ max_team_size \in TeamSizeLimits
    /\ respond_pc = [u \in Invitees |-> "idle"]
    /\ respond_action = [u \in Invitees |-> ""]
    /\ respond_project = [u \in Invitees |-> 0]
    /\ respond_response = [u \in Invitees |-> ""]
    /\ respond_calls = [u \in Invitees |-> 0]

NextInvite ==
    \E u \in Invitees :
        \/ InviteToProject(u)
        \/ \E action \in {"accept", "decline", "maybe"} : RespondLookup(u, action)
        \/ RespondDecline(u)
        \/ CheckSpace(u)
        \/ AddTeamMember(u)
        \/ CountTeamMembers(u)
        \/ SaveTeamSize(u)
        \/ SaveAccepted(u)

SpecInvite == InitInvite /\ [][NextInvite]_vars

(***************************************************************************)
(* Properties: availability                                                *)
(***************************************************************************)
Swap(p) == <<p[2], p[1]>>

\* C1: overlap(A, B) = overlap(B, A) for the pairwise availability overlap,
\* in the ratio-valued and in the percentage-valued matcher
C1_OverlapSymmetric ==
    /\ \A p \in DOMAIN overlap :
          Swap(p) \in DOMAIN overlap => FracEq(overlap[p], overlap[Swap(p)])
    /\ \A p \in DOMAIN match :
          Swap(p) \in DOMAIN match =>
              match[p].match_percentage = match[Swap(p)].match_percentage

\* C3: every team score lies in [0,1], that is in 0..100 percent
C3_TeamScoreInUnitRange ==
    team_result # NoTeamResult =>
        /\ team_result.score.overall_score >= 0
        /\ team_result.score.overall_score <= 1000

\* C4: every availability overlap ratio lies in [0,1], and match_percentage
\* lies in [0,100]
C4_OverlapInUnitRange ==
    /\ \A p \in DOMAIN overlap :
          overlap[p].num >= 0 /\ overlap[p].num <= overlap[p].den
    /\ \A p \in DOMAIN util_overlap :
          util_overlap[p].num >= 0 /\ util_overlap[p].num <= util_overlap[p].den
    /\ \A p \in DOMAIN match :
          match[p].match_percentage >= 0 /\ match[p].match_percentage <= 1000

HasNoEntries(u) == availability[u] = {}

\* C9: when either user has no availability entries the pairwise overlap is
\* the neutral 0.5 (50%), in every matcher, the one the TeamOptimizer uses
\* included
C9_NeutralWithoutEntries ==
    /\ \A p \in DOMAIN overlap :
          (HasNoEntries(p[1]) \/ HasNoEntries(p[2])) => FracEq(overlap[p], Neutral)
    /\ \A p \in DOMAIN util_overlap :
          (HasNoEntries(p[1]) \/ HasNoEntries(p[2])) => FracEq(util_overlap[p], Neutral)
    /\ \A p \in DOMAIN match :
          (HasNoEntries(p[1]) \/ HasNoEntries(p[2])) => match[p].match_percentage = 500

(***************************************************************************)
(* Properties: ranking                                                     *)
(***************************************************************************)
\* matched_details.get(usn, [])
MatchedDetails(usn) ==
    IF usn \in DOMAIN scored.matched_details THEN scored.matched_details[usn] ELSE <<>>

\* the target terms as compute_skill_scores counts them
InputSkills ==
    SelectSeq([i \in DOMAIN matching_skills |-> StripLower(matching_skills[i])],
              LAMBDA t : t # "")

ScoredRow(usn) == scored.df[CHOOSE i \in DOMAIN scored.df : scored.df[i].USN = usn]

EnhancedRow(usn) == enhanced_df[CHOOSE i \in DOMAIN enhanced_df : enhanced_df[i].USN = usn]

PoolUSNs == {candidate_df[i].USN : i \in DOMAIN candidate_df}

\* C2: every Weighted_Score of compute_skill_scores and every
\* Network_Enhanced_Score of enhance_scores_with_graph lies in [0,1]
C2_ScoresInUnitRange ==
    /\ \A i \in DOMAIN scored.df :
          scored.df[i].Weighted_Score >= 0 /\ scored.df[i].Weighted_Score <= Unit
    /\ \A i \in DOMAIN enhanced_df :
          /\ enhanced_df[i].Network_Enhanced_Score >= 0
          /\ enhanced_df[i].Network_Enhanced_Score <= Unit

\* a ranked candidate whose base score and bonuses add up to more than 1
C2_Witness ==
    /\ rank_pc = "ranked"
    /\ \E i \in DOMAIN enhanced_df :
          /\ enhanced_df[i].Weighted_Score = Unit
          /\ enhanced_df[i].Network_Centrality > 0
          /\ enhanced_df[i].Network_Enhanced_Score = Unit
    /\ \E i \in DOMAIN enhanced_df :
          /\ enhanced_df[i].Network_Enhanced_Score > 0
          /\ enhanced_df[i].Network_Enhanced_Score < Unit

\* every target term is matched and every matched skill has proficiency 5
FullMatchAtProficiency5(usn) ==
    /\ InputSkills # <<>>
    /\ Len(MatchedDetails(usn)) = Len(InputSkills)
    /\ \A i \in DOMAIN MatchedDetails(usn) : MatchedDetails(usn)[i].proficiency = 5

SimilaritySum(usn) ==
    SeqSum([i \in DOMAIN MatchedDetails(usn) |-> MatchedDetails(usn)[i].similarity])

\* C6 (as stated): a candidate that matches every target term with
\* proficiency 5 on every matched skill has skill_score exactly 1.0, for any
\* pool
C6_FullMatchScoresOne ==
    rank_pc # "start" =>
        \A usn \in PoolUSNs :
            FullMatchAtProficiency5(usn) => ScoredRow(usn).Weighted_Score = Unit

\* C6: a candidate that matches every target term with proficiency 5 on
\* every matched skill, with a mean best similarity above 2/3, has
\* skill_score exactly 1.0, for any pool
C6_FullMatchHighSimilarityScoresOne ==
    rank_pc # "start" =>
        \A usn \in PoolUSNs :
            (FullMatchAtProficiency5(usn)
             /\ 3 * SimilaritySum(usn) > 2 * Unit * Len(InputSkills))
            => ScoredRow(usn).Weighted_Score = Unit

\* a pool of two where one candidate matches both terms at proficiency 5,
\* one of them not exactly
C6_Witness ==
    /\ rank_pc = "scored"
    /\ Len(candidate_df) > 1
    /\ \E usn \in PoolUSNs :
          /\ FullMatchAtProficiency5(usn)
          /\ Len(InputSkills) > 1
          /\ 3 * SimilaritySum(usn) > 2 * Unit * Len(InputSkills)
          /\ SimilaritySum(usn) < Unit * Len(InputSkills)
          /\ ScoredRow(usn).Weighted_Score = Unit

\* two candidates with the same skills whose proficiencies differ only on
\* skill sk, 5 for hi and 1 for lo, sk being a skill both are matched on
DifferOnlyInProficiency(hi, lo, sk) ==
    /\ hi.Skill = lo.Skill
    /\ sk \in SeqRange(hi.Skill)
    /\ hi.Skill_Proficiencies[sk] = 5
    /\ lo.Skill_Proficiencies[sk] = 1
    /\ \A o \in SeqRange(hi.Skill) \ {sk} :
          hi.Skill_Proficiencies[o] = lo.Skill_Proficiencies[o]
    /\ \E i \in DOMAIN MatchedDetails(hi.USN) : MatchedDetails(hi.USN)[i].matched_skill = sk

C8_EmptyInputsScoreZero ==
    (rank_pc # "start" /\ (InputSkills = <<>> \/ candidate_df = <<>>)) =>
        /\ Len(scored.df) = Len(candidate_df)
        /\ \A i \in DOMAIN scored.df : scored.df[i].Weighted_Score = 0
        /\ \A usn \in PoolUSNs : MatchedDetails(usn) = <<>>

\* blank-only target terms against a candidate that has skills
C8_Witness ==
    /\ rank_pc = "scored"
    /\ matching_skills = <<" ">>
    /\ \E i \in DOMAIN candidate_df : candidate_df[i].Skill # <<>>
    /\ \A i \in DOMAIN scored.df : scored.df[i].Weighted_Score = 0

\* C10: no ranking is computed from placeholder (zero) embeddings and no
\* placeholder vector is stored in the embedding cache: a failed provider
\* call ends the request with an error instead
C10_NoRankingFromPlaceholders ==
    /\ placeholder_used => rank_pc \notin {"scored", "embedded", "ranked"}
    /\ \A sk \in DOMAIN skill_embed_cache : skill_embed_cache[sk] # ZeroVector

\* C5: the network enhancement never decreases a score: every candidate's
\* enhanced score is at least its skill score, in the project matcher and
\* in the study-group matcher
C5_EnhancedAtLeastSkillScore ==
    /\ \A i \in DOMAIN enhanced_df :
          enhanced_df[i].Network_Enhanced_Score >= enhanced_df[i].Weighted_Score
    /\ \A i \in DOMAIN group_enhanced :
          group_enhanced[i].Network_Enhanced_Score >= group_enhanced[i].Skill_Score

(***************************************************************************)
(* Properties: team formation and meeting slots                            *)
(***************************************************************************)
TeamRequested == team_request # NoTeamRequest

\* C11: find_optimal_teams asked for a team larger than the pool, with an
\* empty pool, or with a team size that is not positive answers with an
\* error result and has scored no combination
C11_DegenerateRequestIsError ==
    (/\ TeamRequested
     /\ \/ team_request.team_size > Len(all_users)
        \/ all_users = <<>>
        \/ team_request.team_size <= 0)
    => /\ optimal_teams.error # ""
       /\ ~optimal_teams.success
       /\ optimal_teams.scored_combinations = <<>>
       /\ optimal_teams.top_teams = <<>>

\* a team of three was asked of a pool of two users and refused
C11_Witness ==
    /\ TeamRequested
    /\ Len(all_users) = 2
    /\ team_request.team_size = 3
    /\ optimal_teams.error # ""

\* the number of k-element subsets of n elements
RECURSIVE Binomial(_, _)
Binomial(n, k) ==
    IF k = 0 THEN 1
    ELSE IF n < k THEN 0
    ELSE (Binomial(n - 1, k - 1) * n) \div k

\* the positions in the pool of the members of a combination
Positions(team_ids) ==
    [m \in DOMAIN team_ids |-> CHOOSE i \in DOMAIN all_users : all_users[i] = team_ids[m]]

\* q is the combination that follows p in the order of
\* itertools.combinations over n positions
IsNextCombination(p, q, n) ==
    /\ Len(p) = Len(q)
    /\ \E j \in DOMAIN p :
        /\ \A m \in 1..(j - 1) : q[m] = p[m]
        /\ q[j] = p[j] + 1
        /\ \A m \in (j + 1)..Len(p) : q[m] = q[m - 1] + 1 /\ p[m] = n - Len(p) + m

\* C12: find_optimal_teams scores at most 1000 combinations, and they are
\* the first ones in the order of itertools.combinations: the first scored
\* combination is the first of that order, each next one is its successor
\* in that order, total_combinations_evaluated is their number, and every
\* team returned is one of them
C12_FirstThousandCombinationsOnly ==
    (TeamRequested /\ optimal_teams.success) =>
        LET sc == optimal_teams.scored_combinations
            k == team_request.team_size
            n == Len(all_users)
        IN  /\ Len(sc) = Min2(max_combinations, Binomial(n, k))
            /\ optimal_teams.total_combinations_evaluated = Len(sc)
            /\ sc # <<>> => Positions(sc[1]) = [m \in 1..k |-> m]
            /\ \A i \in 1..(Len(sc) - 1) :
                    IsNextCombination(Positions(sc[i]), Positions(sc[i + 1]), n)
            /\ \A t \in DOMAIN optimal_teams.top_teams :
                    \E i \in DOMAIN sc : sc[i] = optimal_teams.top_teams[t].team_info.team_ids

\* the pool has more than 1000 pairs; the last pair of the order shares a
\* slot like the first pair, and only the first pair is returned
C12_Witness ==
    /\ TeamRequested
    /\ optimal_teams.success
    /\ team_request.team_size = 2
    /\ team_request.min_team_score = 200
    /\ Binomial(Len(all_users), 2) > max_combinations
    /\ optimal_teams.total_combinations_evaluated = max_combinations
    /\ availability[all_users[Len(all_users)]] = availability[all_users[1]]
    /\ availability[all_users[Len(all_users) - 1]] = availability[all_users[2]]
    /\ optimal_teams.teams_found = 1
    /\ optimal_teams.top_teams[1].team_info.team_ids = <<all_users[1], all_users[2]>>

\* the scored combinations whose team score reaches min_team_score
QualifyingCombinations ==
    {i \in DOMAIN optimal_teams.scored_combinations :
        calculate_team_compatibility_score(
            availability, optimal_teams.scored_combinations[i],
            load_user_profiles(availability, SeqRange(all_users)),
            preferred_days).overall_score >= team_request.min_team_score}

\* C13: every team find_optimal_teams returns scores at least
\* min_team_score, the list is in non-increasing order of score, it holds
\* exactly min(max_teams, number of qualifying scored combinations) teams,
\* and each one carries its meeting slots
C13_TopTeamsQualifyingSortedComplete ==
    (TeamRequested /\ optimal_teams.success) =>
        LET top == optimal_teams.top_teams
        IN  /\ \A t \in DOMAIN top :
                    /\ top[t].team_info.score.overall_score >= team_request.min_team_score
                    /\ top[t].meeting_slots.error = ""
            /\ \A t \in 1..(Len(top) - 1) :
                    top[t].team_info.score.overall_score
                        >= top[t + 1].team_info.score.overall_score
            /\ Len(top) = Min2(team_request.max_teams, Cardinality(QualifyingCombinations))

\* the bucket of a slot in which a of n team members are free: perfect at
\* 100%, good from 80%, backup from 50%, none below
BucketOfFraction(a, n) ==
    IF a = n THEN "perfect"
    ELSE IF 100 * a >= 80 * n THEN "good"
    ELSE IF 100 * a >= 50 * n THEN "backup"
    ELSE "none"

\* every slot of the list lst is one of bucket b, counted by the field cnt
AllInBucket(lst, cnt, b) ==
    \A i \in DOMAIN lst : BucketOfFraction(lst[i][cnt], lst[i].total_members) = b

\* C14: a slot is perfect iff all team members are free in it, good iff at
\* least 80% and not all are, backup iff at least 50% and fewer than 80%
\* are, and in no list below 50%, whatever the team size; for the lists of
\* find_team_meeting_slots and for those of find_common_slots
C14_BucketsByFraction ==
    /\ AllInBucket(meeting_slots.perfect_slots, "available_members", "perfect")
    /\ AllInBucket(meeting_slots.good_slots, "available_members", "good")
    /\ AllInBucket(meeting_slots.backup_slots, "available_members", "backup")
    /\ AllInBucket(common_slots.perfect_slots, "available_count", "perfect")
    /\ AllInBucket(common_slots.good_slots, "available_count", "good")
    /\ AllInBucket(common_slots.backup_slots, "available_count", "backup")

\* the attendance of the team that asked for meeting slots, for every
\* standard slot of every preferred day
TeamSlotInfos ==
    {slot_info(load_user_profiles(availability, SeqRange(meeting_slots.member_ids)),
               meeting_slots.member_ids, preferred_days[d], time_slots[t]) :
        d \in DOMAIN preferred_days, t \in DOMAIN time_slots}

SlotsFrom(percent) ==
    {info \in TeamSlotInfos : 100 * info.available_members >= percent * info.total_members}

\* C19: when no slot of the team reaches 80% attendance and some slot
\* reaches 50%, find_team_meeting_slots returns empty perfect and good
\* lists, returns every slot with at least 50% attendance as backup, and
\* the best slot of its fallback recommendation is a backup slot of maximal
\* availability percentage
C19_BackupOnlyFallback ==
    (/\ meeting_slots.error = ""
     /\ meeting_slots.member_ids # <<>>
     /\ SlotsFrom(80) = {}
     /\ SlotsFrom(50) # {})
    => /\ meeting_slots.perfect_slots = <<>>
       /\ meeting_slots.good_slots = <<>>
       /\ \A info \in SlotsFrom(50) :
            \E i \in DOMAIN meeting_slots.backup_slots :
                meeting_slots.backup_slots[i] = info
       /\ LET best_slot == meeting_slots.fallback_recommendations.best_slot
          IN  /\ best_slot \in SlotsFrom(50)
              /\ \A info \in SlotsFrom(50) :
                    best_slot.availability_percentage >= info.availability_percentage

(***************************************************************************)
(* Properties: order and details of the ranking                            *)
(***************************************************************************)
\* the place of a candidate identifier in ascending order of identifiers
USNRank(usn) == CHOOSE i \in DOMAIN USNs : USNs[i] = usn

\* C15: the output of enhance_scores_with_graph is in non-increasing order
\* of Network_Enhanced_Score, and candidates with equal enhanced score are
\* in ascending order of USN
C15_RankedByScoreThenIdentifier ==
    rank_pc = "ranked" =>
        \A i, j \in DOMAIN enhanced_df :
            i < j =>
                \/ enhanced_df[i].Network_Enhanced_Score > enhanced_df[j].Network_Enhanced_Score
                \/ /\ enhanced_df[i].Network_Enhanced_Score = enhanced_df[j].Network_Enhanced_Score
                   /\ USNRank(enhanced_df[i].USN) < USNRank(enhanced_df[j].USN)

\* C16: the matched_skills list of every result entry has at most 5
\* entries, is in non-increasing order of similarity, and no matched item
\* left out has a higher similarity than an entry of the list
C16_MatchDetailsTopFiveBySimilarity ==
    rank_pc = "answered" =>
        \A usn \in DOMAIN matched_skills :
            LET lst == matched_skills[usn]
                items == IF usn \in DOMAIN scored.matched_details
                         THEN scored.matched_details[usn] ELSE <<>>
            IN  /\ Len(lst) <= 5
                /\ \A i, j \in DOMAIN lst : i < j => lst[i].similarity >= lst[j].similarity
                /\ Len(lst) = Min2(5, Len(items))
                /\ \A k \in DOMAIN items : \A i \in DOMAIN lst :
                        k > Len(lst) =>
                            RoundDiv(items[k].similarity, 10) * 10 <= lst[i].similarity

\* the matches of a candidate that count: similarity at least the threshold
\* and proficiency above 0
CountedMatches(usn) == SelectSeq(MatchedDetails(usn), LAMBDA d : d.proficiency > 0)

\* the mean over the matches in ms of similarity * (0.3 + 0.7 * proficiency / 5)
MeanWeightedSimilarity(ms) ==
    SeqSum([i \in DOMAIN ms |-> (ms[i].similarity * (30 + 14 * ms[i].proficiency)) \div 100])
        \div Len(ms)

\* C17: a target term counts as matched for a candidate iff its best
\* similarity reaches the threshold and the matched skill has proficiency
\* above 0: the candidate's average is taken over exactly those terms, a
\* candidate with such a term scores above 0, and a candidate whose matches
\* above the threshold all have proficiency 0, or who has no skills, has
\* skill score 0
C17_WantToLearnMatchesDoNotCount ==
    rank_pc = "scored" =>
        \A i \in DOMAIN scored.df :
            LET usn == scored.df[i].USN
            IN  /\ \A k \in DOMAIN MatchedDetails(usn) :
                        MatchedDetails(usn)[k].similarity >= threshold
                /\ IF CountedMatches(usn) = <<>>
                   THEN scored.df[i].Weighted_Score = 0 /\ scored.df[i].Average_Similarity = 0
                   ELSE /\ scored.df[i].Weighted_Score > 0
                        /\ scored.df[i].Average_Similarity
                                = MeanWeightedSimilarity(CountedMatches(usn))

\* one candidate whose only match above the threshold has proficiency 0
\* and scores 0, next to one with a counted match
C17_Witness ==
    /\ rank_pc = "scored"
    /\ \E i, j \in DOMAIN scored.df :
        /\ MatchedDetails(scored.df[i].USN) # <<>>
        /\ CountedMatches(scored.df[i].USN) = <<>>
        /\ scored.df[i].Weighted_Score = 0
        /\ CountedMatches(scored.df[j].USN) # <<>>
        /\ Len(CountedMatches(scored.df[j].USN)) < Len(MatchedDetails(scored.df[j].USN))

(***************************************************************************)
(* Properties: worked availability example                                 *)
(***************************************************************************)
\* the user is free in exactly one slot, Monday 10:00-12:00
FreeMondayTenToTwelveOnly(u) == availability[u] = {<<1, 600, 720>>}

\* C18: when both users are free in exactly the one slot Monday
\* 10:00-12:00, overlap(A, B) is 1/(7 * 12) = 1/84; the schedule matcher
\* over the whole week counts 1 common slot of 84 and reports that ratio as
\* a percentage with one decimal
C18_SingleSharedSlotIsOneOfEightyFour ==
    \A p \in OrderedPairs :
        (FreeMondayTenToTwelveOnly(p[1]) /\ FreeMondayTenToTwelveOnly(p[2])) =>
            /\ p \in DOMAIN overlap =>
                    FracEq(overlap[p], [num |-> 1, den |-> Len(days) * Len(time_slots)])
            /\ (p \in DOMAIN match /\ preferred_days = days) =>
                    /\ match[p].error = ""
                    /\ match[p].common_slots = 2
                    /\ match[p].total_possible_slots = Len(days) * Len(time_slots)
                    /\ match[p].match_percentage
                            = RoundDiv(1000, Len(days) * Len(time_slots))

\* both matchers have answered for such a pair, over the whole week
C18_Witness ==
    \E p \in OrderedPairs :
        /\ FreeMondayTenToTwelveOnly(p[1])
        /\ FreeMondayTenToTwelveOnly(p[2])
        /\ p \in DOMAIN overlap
        /\ p \in DOMAIN match
        /\ preferred_days = days
        /\ overlap[p].num > 0

(***************************************************************************)
(* Properties: seeding                                                     *)
(***************************************************************************)
\* every department and every skill of the seed lists has its row
Seeded ==
    /\ \A k \in DOMAIN seed_departments : \E i \in DOMAIN department_rows :
            department_rows[i] = seed_departments[k]
    /\ \A k \in DOMAIN seed_skills : \E i \in DOMAIN skill_rows : skill_rows[i] = seed_skills[k]

\* C20: a call of add_test_departments or add_test_skills, alone or both
\* in any order, on a database that is already seeded creates no
\* Department row and no Skill row: both counts stay as they are
C20_SeedingIdempotent ==
    [][Seeded => /\ Len(department_rows') = Len(department_rows)
                 /\ Len(skill_rows') = Len(skill_rows)]_vars

\* two more calls were made on a seeded database that also holds rows from
\* elsewhere
C20_Witness ==
    /\ Seeded
    /\ seed_calls = MaxSeedCalls
    /\ Len(department_rows) = Len(seed_departments) + 1
    /\ Len(skill_rows) = Len(seed_skills) + 1


(***************************************************************************)
(* Properties: proficiency bonus and pool independence                     *)
(***************************************************************************)
\* the proficiency bonus before coverage scaling that compute_skill_scores
\* gives a candidate, from the matches that count
BaseBonusOf(usn) ==
    ProficiencyBonusBase(
        SeqSum([k \in DOMAIN CountedMatches(usn) |-> CountedMatches(usn)[k].proficiency]),
        Len(CountedMatches(usn)))

\* the step function on the 0-5 scale: 2% below 1, 5% below 2, 10% below 3,
\* 15% below 4 (and below 5), 20% at 5
StepOnFivePointScale(total_proficiency, matched_skills_count) ==
    IF total_proficiency < 1 * matched_skills_count THEN 200
    ELSE IF total_proficiency < 2 * matched_skills_count THEN 500
    ELSE IF total_proficiency < 3 * matched_skills_count THEN 1000
    ELSE IF total_proficiency < 5 * matched_skills_count THEN 1500
    ELSE 2000

\* every counted match of the candidate has proficiency p
AllCountedAt(usn, p) ==
    /\ CountedMatches(usn) # <<>>
    /\ \A k \in DOMAIN CountedMatches(usn) : CountedMatches(usn)[k].proficiency = p

\* C21: the proficiency bonus before coverage scaling is the step function
\* of the average proficiency of the matched skills on the 0-5 scale, so a
\* candidate matched only at proficiency 1 gets a smaller bonus than one
\* matched only at proficiency 5
C21_BonusStepsOnFivePointScale ==
    rank_pc = "scored" =>
        \A i, j \in DOMAIN scored.df :
            LET a == scored.df[i].USN
                b == scored.df[j].USN
            IN  /\ CountedMatches(a) # <<>> =>
                    BaseBonusOf(a) = StepOnFivePointScale(
                        SeqSum([k \in DOMAIN CountedMatches(a) |->
                                    CountedMatches(a)[k].proficiency]),
                        Len(CountedMatches(a)))
                /\ (AllCountedAt(a, 1) /\ AllCountedAt(b, 5)) =>
                    BaseBonusOf(a) < BaseBonusOf(b)


\* the Weighted_Score compute_skill_scores gives the row when it is the only
\* candidate of the pool
ScoreAlone(row) ==
    compute_skill_scores(<<row>>, matching_skills, threshold, TRUE, TRUE).df[1].Weighted_Score

\* C22: a candidate's skill score depends only on the target terms, the
\* threshold and its own skills and proficiencies: with other candidates
\* in the pool it is the score the candidate gets alone
C22_ScoreIndependentOfPool ==
    (rank_pc = "scored" /\ ~placeholder_used) =>
        \A i \in DOMAIN candidate_df :
            ScoredRow(candidate_df[i].USN).Weighted_Score = ScoreAlone(candidate_df[i])


(***************************************************************************)
(* Properties: community bonus                                             *)
(***************************************************************************)
\* rows i and j of the pool are joined by an edge of the student graph
GraphEdge(i, j) ==
    /\ i # j
    /\ CosineAtLeastThreshold(StudentEmbedding(candidate_df[i], skill_embeddings_dict),
                              StudentEmbedding(candidate_df[j], skill_embeddings_dict))

\* row i is a core point: itself and its neighbours are at least min_samples
CorePoint(i) == Cardinality({j \in DOMAIN candidate_df : GraphEdge(i, j)}) + 1 >= 2

\* row i belongs to a density cluster: a core point or a neighbour of one
InDensityCluster(i) ==
    /\ \E j \in DOMAIN candidate_df : GraphEdge(i, j)
    /\ CorePoint(i) \/ \E j \in DOMAIN candidate_df : GraphEdge(i, j) /\ CorePoint(j)

\* C23: a candidate's enhanced score carries the community bonus 0.02 iff
\* the candidate is a member of a density cluster; a candidate without a
\* graph edge, or labelled noise, gets none
C23_CommunityBonusIffClusterMember ==
    rank_pc = "ranked" =>
        \A i \in DOMAIN candidate_df :
            LET row == EnhancedRow(candidate_df[i].USN)
            IN  row.Network_Enhanced_Score =
                    Min2(Unit, row.Weighted_Score
                               + (row.Network_Centrality * 1000) \div Unit
                               + (IF InDensityCluster(i) THEN 200 ELSE 0))

\* a ranked candidate in a cluster whose bonus is visible below the cap
C23_Witness ==
    /\ rank_pc = "ranked"
    /\ \E i \in DOMAIN candidate_df :
        /\ InDensityCluster(i)
        /\ EnhancedRow(candidate_df[i].USN).Network_Enhanced_Score < Unit
        /\ EnhancedRow(candidate_df[i].USN).Network_Enhanced_Score
              = EnhancedRow(candidate_df[i].USN).Weighted_Score
                + (EnhancedRow(candidate_df[i].USN).Network_Centrality * 1000) \div Unit + 200


(***************************************************************************)
(* Properties: team score over all pairs                                   *)
(***************************************************************************)
\* the score record _calculate_team_compatibility_score gave combination i
CombinationScore(i) ==
    calculate_team_compatibility_score(
        availability, optimal_teams.scored_combinations[i],
        load_user_profiles(availability, SeqRange(all_users)), preferred_days)

\* min(spread / 10, 10) + 15 per member without availability, in tenths of
\* a percent, spread being the largest minus the smallest number of slots
PenaltyOf(team_ids) ==
    LET slots == [i \in DOMAIN team_ids |->
                    Cardinality({r \in availability[team_ids[i]] : r[1] \in DayIndexes})]
    IN  Min2(SetMax(SeqRange(slots)) - SetMin(SeqRange(slots)), 100)
        + 150 * Cardinality({i \in DOMAIN team_ids : slots[i] = 0})

\* C24: the score of every team of size k is taken over all k*(k-1)/2 pairs
\* and is 0.6 * average + 0.3 * minimum + 0.1 * maximum of the pairwise
\* percentages minus the availability penalty
C24_TeamScoreOverAllPairs ==
    (TeamRequested /\ optimal_teams.success) =>
        \A i \in DOMAIN optimal_teams.scored_combinations :
            LET team_ids == optimal_teams.scored_combinations[i]
                k == Len(team_ids)
                n == (k * (k - 1)) \div 2
                pct == [ij \in PairIndexes(k) |->
                            calculate_schedule_match_percentage(
                                availability, team_ids[ij[1]], team_ids[ij[2]],
                                preferred_days).match_percentage]
            IN  /\ CombinationScore(i).pairs_scored = n
                /\ CombinationScore(i).availability_penalty = PenaltyOf(team_ids)
                /\ CombinationScore(i).overall_score
                      = RoundDiv(6 * TotalOf(pct) + 3 * n * SetMin({pct[ij] : ij \in DOMAIN pct})
                                 + n * SetMax({pct[ij] : ij \in DOMAIN pct})
                                 - 10 * n * PenaltyOf(team_ids), 10 * n)


(***************************************************************************)
(* Properties: who counts as free for a fixed slot                         *)
(***************************************************************************)
\* two intervals overlap: not (end1 <= start2 or end2 <= start1), after 24
\* hours are added to an end that is not after its start
IntervalsOverlap(a, b) ==
    LET end_a == IF a[2] <= a[1] THEN a[2] + 24 * 60 ELSE a[2]
        end_b == IF b[2] <= b[1] THEN b[2] + 24 * 60 ELSE b[2]
    IN  ~(end_a <= b[1] \/ end_b <= a[1])

\* the members of ids that are free on day in the fixed slot: the slot is
\* one of their intervals of that day, or one of them overlaps it
FreeMembers(ids, day, slot) ==
    {i \in DOMAIN ids :
        /\ ids[i] \in DOMAIN availability
        /\ \E r \in availability[ids[i]] :
            /\ r[1] = day
            /\ <<r[2], r[3]>> = slot \/ IntervalsOverlap(slot, <<r[2], r[3]>>)}

\* every slot of the list lst counts, in its field cnt, the free members of ids
CountsFreeMembers(lst, cnt, ids) ==
    \A i \in DOMAIN lst :
        lst[i][cnt] = Cardinality(FreeMembers(ids, lst[i].day, lst[i].time_slot))

\* C25: the number of members a listed slot counts as free is the number
\* of members who have that exact slot or an interval overlapping it; an
\* interval that only touches the slot's boundary does not count
C25_FreeIffExactOrOverlapping ==
    /\ CountsFreeMembers(meeting_slots.perfect_slots, "available_members",
                         meeting_slots.member_ids)
    /\ CountsFreeMembers(meeting_slots.good_slots, "available_members",
                         meeting_slots.member_ids)
    /\ CountsFreeMembers(meeting_slots.backup_slots, "available_members",
                         meeting_slots.member_ids)
    /\ CountsFreeMembers(common_slots.perfect_slots, "available_count",
                         common_slots.team_member_ids)
    /\ CountsFreeMembers(common_slots.good_slots, "available_count",
                         common_slots.team_member_ids)
    /\ CountsFreeMembers(common_slots.backup_slots, "available_count",
                         common_slots.team_member_ids)


(***************************************************************************)
(* Properties: availability credit per day                                 *)
(***************************************************************************)
\* the number of slots user u has on day d
SlotsOn(u, d) == Cardinality({r \in availability[u] : r[1] = d})

\* twice the sum over the days ds of min(#u1's slots, #u2's slots)
RECURSIVE CreditBoundHalves(_, _, _)
CreditBoundHalves(ds, u1, u2) ==
    IF ds = <<>> THEN 0
    ELSE 2 * Min2(SlotsOn(u1, Head(ds)), SlotsOn(u2, Head(ds)))
         + CreditBoundHalves(Tail(ds), u1, u2)

\* C26: availability credit is not counted twice: an exact match earns 1
\* and no further 0.5, every slot earns at most one partial credit, so the
\* credit of a day never exceeds min(#A's slots that day, #B's slots that
\* day), summed here over the days compared
C26_CreditAtMostSmallerSlotCount ==
    /\ \A p \in DOMAIN match :
          match[p].error = "" =>
              match[p].common_slots <= CreditBoundHalves(preferred_days, p[1], p[2])
    /\ \A p \in DOMAIN overlap :
          (p[1] # p[2] /\ ~HasNoEntries(p[1]) /\ ~HasNoEntries(p[2])) =>
              overlap[p].num <= CreditBoundHalves(days, p[1], p[2])


(***************************************************************************)
(* Properties: the shared embedding cache                                  *)
(***************************************************************************)
\* the callers that had the skill in their pending list: they encode it
\* and store it
WritersOf(sk) == {c \in DOMAIN caller_pending : sk \in SeqRange(caller_pending[c])}

\* C27: whatever the interleaving of the callers, a skill they miss on is
\* encoded and stored by at most one of them, and an entry of the cache is
\* never replaced by a different vector
C27_SingleWriterOnMiss ==
    /\ [](\A c \in DOMAIN caller_pending : \A k \in DOMAIN caller_pending[c] :
            Cardinality(WritersOf(caller_pending[c][k])) <= 1)
    /\ [][\A sk \in DOMAIN skill_embed_cache :
            skill_embed_cache'[sk] = skill_embed_cache[sk]]_vars


(***************************************************************************)
(* Properties: the profile cache                                           *)
(***************************************************************************)
\* C28: a load_user_profiles call for all users through the cache returns
\* a profile for every user of the store, whatever calls came before, so
\* get_comprehensive_recommendations considers every other user
C28_AllUsersThroughCache ==
    /\ (profiles.called /\ profiles.user_ids = <<>> /\ profiles.use_cache) =>
            DOMAIN profiles.result = DOMAIN availability
    /\ (recommendations.called /\ recommendations.success) =>
            recommendations.candidate_ids = DOMAIN availability \ {recommendations.user_id}


(***************************************************************************)
(* Properties: invitations                                                 *)
(***************************************************************************)
\* the invitee's last request was an accept that has run to its end and
\* was turned away neither as not found nor for lack of space
AcceptHasRun(u) ==
    /\ respond_pc[u] = "idle"
    /\ respond_action[u] = "accept"
    /\ respond_response[u] \notin {"", "not_found", "full", "bad_action"}

\* C29: once an accept of a pending invitation of a project with space has
\* run, the invitation is 'accepted' and the invitee is a TeamMember; a
\* later respond on that invitation is answered not found
C29_AcceptedThenClosed ==
    /\ [](\A u \in DOMAIN respond_pc :
            AcceptHasRun(u) => invite_status[u] = "accepted" /\ u \in team_members)
    /\ [][\A u \in DOMAIN respond_pc :
            (AcceptHasRun(u) /\ respond_calls'[u] = respond_calls[u] + 1)
                => respond_response'[u] = "not_found"]_vars

\* C30: whatever the interleaving of the accepts of different invitees, the
\* project never has more TeamMember rows than max_team_size
C30_MembersWithinMaxTeamSize ==
    max_team_size # 0 => Cardinality(team_members) <= max_team_size

=============================================================================
